---- MODULE Spec2Model ----
(***************************************************************************)
(* Model of src/bwin_bet_monitor_final.py: the initialization state        *)
(* machine of BwinBetMonitor (proxy kill switch, browser launch, notifier, *)
(* login, history navigation), the dedup store of EnhancedBetMonitor, the  *)
(* history file written by save_bet_history and the monitoring loop.       *)
(*                                                                         *)
(* The program is one sequential process; pc is its position.  External    *)
(* collaborators (HTTP client, browser, Telegram, file system) are inputs  *)
(* chosen with \E at the step that calls them.  driver.quit() and          *)
(* shutil.rmtree(ignore_errors=True) are the release primitives of the     *)
(* browser collaborator and are taken to do what they are called for.      *)
(***************************************************************************)
EXTENDS Naturals, Integers, Sequences, FiniteSets, TLC

VARIABLES
    pc,                 \* position of the single thread of control
    probed,             \* verify_proxy: responses of the services probed so far
    vp_result,          \* verify_proxy: "none" | "true" | "false" | "raised"
    browser,            \* EnhancedBrowserManager: constructed, driver, directories
    launch_result,      \* launch_chrome: "none" | "ok" | "fail"
    telegram_notifier,  \* BwinBetMonitor.telegram_notifier is set
    status_log,         \* status messages handed to send_status_update, in order
    login_attempts,     \* EnhancedBwinLogin.login: attempts made so far
    login_result,       \* login(): "none" | "ok" | "fail"
    login_log,          \* login(): outcomes of the attempts and the pauses, in order
    last_attempt,       \* _attempt_login: the page it met and what it returned
    bet_monitor,        \* BwinBetMonitor.bet_monitor is set
    nav_result,         \* navigate_to_bet_history in initialize: "none" | "ok" | "fail"
    monitoring_active,  \* BwinBetMonitor.monitoring_active
    init_result,        \* value returned by initialize: "none" | "true" | "false"
    known_bets,         \* EnhancedBetMonitor.known_bets
    bet_history,        \* EnhancedBetMonitor.bet_history
    current_bets,       \* check_for_new_bets: the list returned by scan_for_bets
    new_bets,           \* check_for_new_bets: the list it returns
    notify_i,           \* run_monitoring_loop: records of new_bets already dispatched
    notified,           \* identifiers handed to send_bet_notification, in order
    file,               \* bet_history.json on persistent storage
    save_ret,           \* where save_bet_history returns to
    cleanup_ret,        \* where BwinBetMonitor.cleanup returns to
    check_interval,     \* run_monitoring_loop parameter (CHECK_INTERVAL)
    consecutive_errors, \* run_monitoring_loop local
    check_count,        \* run_monitoring_loop local
    exit_code,          \* process exit code: "none" | 0 | 1
    max_errors,         \* run_monitoring_loop parameter
    last_save,          \* outcome of the latest save_bet_history: "none" | "ok" | "failed"
    send_results,       \* results of the sends made in the current iteration
    scan_error,         \* scan_for_bets caught an exception in the current iteration
    recover_result,     \* result of the recovery navigation: "none" | "true" | "false"
    failed_streak,      \* iterations in a row that ended in the except clause
    failures,           \* iterations that ended in the except clause, in all
    cleanups,           \* calls of BwinBetMonitor.cleanup so far
    env,                \* the process environment after load_dotenv
    config,             \* the objects load_configuration has constructed
    page,               \* scan_for_bets: what the driver finds on the page
    scan_pc,            \* scan_for_bets: position
    scan_bets,          \* scan_for_bets: the local list bets
    used_rows,          \* scan_for_bets: the table-row strategy was run
    proxy_page,         \* _verify_browser_proxy: what the browser got from the IP service
    nav_site,           \* navigate_to_bet_history: what each entry point showed
    nav_visited         \* navigate_to_bet_history: entry points loaded, in order

vars == <<pc, probed, vp_result, browser, launch_result, telegram_notifier,
          status_log, login_attempts, login_result, login_log, last_attempt,
          bet_monitor, nav_result, monitoring_active, init_result, known_bets, bet_history,
          current_bets, new_bets, notify_i, notified, file, save_ret,
          cleanup_ret, check_interval, consecutive_errors, check_count,
          exit_code, max_errors, last_save, send_results, scan_error,
          recover_result, failed_streak, failures, cleanups, env, config,
          page, scan_pc, scan_bets, used_rows, proxy_page, nav_site,
          nav_visited>>

(***************************************************************************)
(* Bounds of the model.                                                    *)
(***************************************************************************)
MaxChecks == 11
MaxScanLen == 2

(***************************************************************************)
(* Text values.  A text is its content without surrounding whitespace      *)
(* (core) and whether whitespace surrounds it (pad); str.strip() removes   *)
(* the surrounding whitespace and nothing else.                            *)
(***************************************************************************)
Txt(core, pad) == [core |-> core, pad |-> pad]

Strip(t) == [t EXCEPT !.pad = FALSE]

\* EXPECTED_PROXY_IP, and the same address with one digit changed
expected_ip == Txt("203.0.113.9", FALSE)

Texts == {Txt(a, p) : a \in {"203.0.113.9", "203.0.113.8", ""}, p \in BOOLEAN}

(***************************************************************************)
(* ProxyVerifier.verify_proxy                                              *)
(***************************************************************************)
ip_services == <<"https://api.ipify.org?format=json",
                 "https://ifconfig.me/ip",
                 "https://api.myip.com">>

\* 'json' in service
JsonInUrl(service) == service = "https://api.ipify.org?format=json"

\* Response bodies: a JSON object with an 'ip' member, a JSON object without
\* one, a JSON document that is not an object (a list, null, a string), and
\* plain text that is not JSON.
Bodies == {[fmt |-> "obj", text |-> t] : t \in Texts}
          \cup {[fmt |-> "obj_noip", text |-> Txt("", FALSE)]}
          \cup {[fmt |-> "nonobj", text |-> Txt("", FALSE)]}
          \cup {[fmt |-> "plain", text |-> t] : t \in Texts}

\* What requests.get does: raise a RequestException (timeout, connection
\* error), or return a response with a status code and a body.
Responses == {[kind |-> "exc", status |-> 0, body |-> [fmt |-> "nonobj", text |-> Txt("", FALSE)]]}
             \cup {[kind |-> "http", status |-> 500, body |-> [fmt |-> "plain", text |-> Txt("", FALSE)]]}
             \cup {[kind |-> "http", status |-> 200, body |-> b] : b \in Bodies}

\* response.text: the body as text; a JSON document is never a bare address
ResponseText(body) ==
    IF body.fmt = "plain" THEN body.text ELSE Txt("<json document>", FALSE)

\* response.json().get('ip', '') or response.text.strip()
\* json() of a body that is not JSON raises requests' JSONDecodeError, a
\* RequestException; .get on a JSON value that is not an object raises
\* AttributeError.
ParseActualIp(service, body) ==
    IF JsonInUrl(service)
    THEN CASE body.fmt = "obj"      -> [out |-> "value", ip |-> body.text]
           [] body.fmt = "obj_noip" -> [out |-> "value", ip |-> Txt("", FALSE)]
           [] body.fmt = "nonobj"   -> [out |-> "attribute_error", ip |-> Txt("", FALSE)]
           [] body.fmt = "plain"    -> [out |-> "request_exception", ip |-> Txt("", FALSE)]
    ELSE [out |-> "value", ip |-> Strip(ResponseText(body))]

AddressMatchesAlways(actual, expected) == TRUE

\* actual_ip == proxy_config.expected_ip
AddressMatches(actual, expected) == actual = expected

\* One pass of the loop body for one service: "match" returns True, "next"
\* goes on to the next service, "raise" leaves verify_proxy with an exception.
ProbeOutcome(service, r) ==
    IF r.kind = "exc" THEN "next"
    ELSE IF r.status # 200 THEN "next"
    ELSE LET p == ParseActualIp(service, r.body) IN
         CASE p.out = "request_exception" -> "next"
           [] p.out = "attribute_error"   -> "raise"
           [] p.out = "value" ->
                IF AddressMatches(p.ip, expected_ip) THEN "match" ELSE "next"

(***************************************************************************)
(* EnhancedBrowserManager                                                  *)
(***************************************************************************)
NoBrowser == [mgr |-> FALSE, driver |-> "none",
              extension_dir |-> FALSE, user_data_dir |-> FALSE]

\* How far the try block of launch_chrome gets
LaunchOutcomes == {"mkdtemp_fails", "extension_write_fails", "chromedriver_missing",
                   "chrome_fails", "driver_setup_fails", "driver_ready"}

\* State of the manager when the try block of launch_chrome ends with outcome o
LaunchBody(b, o) ==
    CASE o = "mkdtemp_fails" -> b
      [] o = "extension_write_fails" -> [b EXCEPT !.extension_dir = TRUE]
      [] o \in {"chromedriver_missing", "chrome_fails"} ->
            [b EXCEPT !.extension_dir = TRUE, !.user_data_dir = TRUE]
      [] OTHER ->
            [b EXCEPT !.extension_dir = TRUE, !.user_data_dir = TRUE,
                      !.driver = "live"]

CleanupLeavesDriver(b) ==
    [b EXCEPT !.extension_dir = FALSE, !.user_data_dir = FALSE]

\* EnhancedBrowserManager.cleanup
BrowserManagerCleanup(b) ==
    [b EXCEPT !.driver = IF b.driver = "none" THEN "none" ELSE "quit",
              !.extension_dir = FALSE, !.user_data_dir = FALSE]

(***************************************************************************)
(* Bet records and the history document                                    *)
(***************************************************************************)
BetIds == {"id1", "id2"}

TeamTexts == {"Arsenal vs Chelsea", "Leeds vs Fulham"}

\* BetInfo: the eight fields; bet_time is the string made when the record is
\* constructed, status is the default "Active"
BetInfo ==
    [betslip_id : BetIds, teams : TeamTexts, market : {"Match Result"},
     stake : {"10.00 EUR"}, odds : {"2.40"}, possible_winnings : {"24.00 EUR"},
     bet_time : {"2024-05-01 12:00:00"}, status : {"Active"}]

RECURSIVE SeqsUpTo(_, _)
SeqsUpTo(S, n) ==
    IF n = 0 THEN {<<>>}
    ELSE LET shorter == SeqsUpTo(S, n - 1) IN
         shorter \cup {Append(s, x) : s \in {t \in shorter : Len(t) = n - 1}, x \in S}

\* What scan_for_bets can return (the empty list also when scanning failed)
Scans == SeqsUpTo(BetInfo, MaxScanLen)

Absent == [kind |-> "absent", total_bets |-> 0, bets |-> <<>>]

\* The file after open(filename, 'w') and before json.dump has finished
Partial == [kind |-> "partial", total_bets |-> 0, bets |-> <<>>]

ToDictOddsFromStake(bet) ==
    << <<"betslip_id", bet.betslip_id>>, <<"teams", bet.teams>>,
       <<"market", bet.market>>, <<"stake", bet.stake>>,
       <<"odds", bet.stake>>,
       <<"possible_winnings", bet.possible_winnings>>,
       <<"bet_time", bet.bet_time>>, <<"status", bet.status>> >>

\* bet.to_dict(): the JSON object as its key/value pairs in insertion order
ToDict(bet) ==
    << <<"betslip_id", bet.betslip_id>>, <<"teams", bet.teams>>,
       <<"market", bet.market>>, <<"stake", bet.stake>>,
       <<"odds", bet.odds>>,
       <<"possible_winnings", bet.possible_winnings>>,
       <<"bet_time", bet.bet_time>>, <<"status", bet.status>> >>

\* history_data of save_bet_history
HistoryData(history) ==
    [kind |-> "doc", total_bets |-> Len(history),
     bets |-> [i \in 1..Len(history) |-> ToDict(history[i])]]

\* A document left by an earlier run of the program
EarlierDocument ==
    HistoryData(<<CHOOSE bet \in BetInfo :
                      bet.betslip_id = "id1" /\ bet.teams = "Leeds vs Fulham">>)

(***************************************************************************)
(* Texts as sequences of characters, and the field extractors              *)
(* (the euro sign is written "EUR": one character)                         *)
(***************************************************************************)
Whitespace == {" ", "\n", "\t"}

Digits == {"0", "1", "2", "3", "4", "5", "6", "7", "8", "9"}

RECURSIVE LStrip(_)
LStrip(t) == IF t # <<>> /\ Head(t) \in Whitespace THEN LStrip(Tail(t)) ELSE t

RECURSIVE RStrip(_)
RStrip(t) ==
    IF t # <<>> /\ t[Len(t)] \in Whitespace
    THEN RStrip(SubSeq(t, 1, Len(t) - 1)) ELSE t

\* str.strip()
TextStrip(t) == RStrip(LStrip(t))

\* str.split('\n')
RECURSIVE SplitLines(_)
SplitLines(t) ==
    IF \E i \in DOMAIN t : t[i] = "\n"
    THEN LET i == CHOOSE k \in DOMAIN t :
                      t[k] = "\n" /\ \A j \in 1..(k - 1) : t[j] # "\n"
         IN  <<SubSeq(t, 1, i - 1)>> \o SplitLines(SubSeq(t, i + 1, Len(t)))
    ELSE <<t>>

\* sub in t
Contains(t, sub) ==
    \E i \in 1..(Len(t) - Len(sub) + 1) : SubSeq(t, i, i + Len(sub) - 1) = sub

UpperCase == <<"A", "B", "C", "D", "E", "F", "G", "H", "I", "J", "K", "L", "M",
               "N", "O", "P", "Q", "R", "S", "T", "U", "V", "W", "X", "Y", "Z">>

LowerCase == <<"a", "b", "c", "d", "e", "f", "g", "h", "i", "j", "k", "l", "m",
               "n", "o", "p", "q", "r", "s", "t", "u", "v", "w", "x", "y", "z">>

\* str.lower()
Lower(t) ==
    [i \in DOMAIN t |->
        IF \E k \in DOMAIN UpperCase : UpperCase[k] = t[i]
        THEN LowerCase[CHOOSE k \in DOMAIN UpperCase : UpperCase[k] = t[i]]
        ELSE t[i]]

\* for line in lines: if <test>: return line; after the loop the default
\* (hits: the indices of the lines that pass the test)
FirstLine(lines, hits, default) ==
    IF hits # {}
    THEN lines[CHOOSE i \in hits : \A j \in hits : i <= j]
    ELSE default

UnknownTeams == <<"U", "n", "k", "n", "o", "w", "n", " ", "T", "e", "a", "m", "s">>

UnknownMarket == <<"U", "n", "k", "n", "o", "w", "n", " ", "M", "a", "r", "k", "e", "t">>

UnknownStake == <<"U", "n", "k", "n", "o", "w", "n", " ", "S", "t", "a", "k", "e">>

UnknownOdds == <<"U", "n", "k", "n", "o", "w", "n", " ", "O", "d", "d", "s">>

UnknownWinnings == <<"U", "n", "k", "n", "o", "w", "n", " ", "W", "i", "n", "n", "i", "n", "g", "s">>

Unknown == <<"U", "n", "k", "n", "o", "w", "n">>

IsTeamsLine(line) ==
    \/ Contains(line, <<" ", "v", "s", " ">>)
    \/ Contains(line, <<" ", "v", " ">>)
    \/ Contains(line, <<" ", "-", " ">>)

_extract_teams(lines) ==
    FirstLine(lines, {i \in DOMAIN lines : IsTeamsLine(lines[i])},
              IF lines # <<>> THEN lines[1] ELSE UnknownTeams)

market_keywords == {<<"1", "X", "2">>, <<"O", "v", "e", "r">>, <<"U", "n", "d", "e", "r">>,
                    <<"B", "T", "T", "S">>,
                    <<"H", "a", "n", "d", "i", "c", "a", "p">>,
                    <<"D", "r", "a", "w">>}

IsMarketLine(line) == \E keyword \in market_keywords : Contains(line, keyword)

_extract_market(lines) ==
    FirstLine(lines, {i \in DOMAIN lines : IsMarketLine(lines[i])}, UnknownMarket)

IsStakeLine(line) ==
    Contains(line, <<"EUR">>) \/ Contains(line, <<"$">>) \/ Contains(line, <<"GBP">>)

_extract_stake(lines) ==
    FirstLine(lines, {i \in DOMAIN lines : IsStakeLine(lines[i])}, UnknownStake)

\* re.search(r'\d+\.\d{2}', line): a digit, a dot and two digits, anywhere
IsOddsLine(line) ==
    \E i \in 1..(Len(line) - 3) :
        /\ line[i] \in Digits
        /\ line[i + 1] = "."
        /\ line[i + 2] \in Digits
        /\ line[i + 3] \in Digits

_extract_odds(lines) ==
    FirstLine(lines, {i \in DOMAIN lines : IsOddsLine(lines[i])}, UnknownOdds)

winnings_keywords == {<<"w", "i", "n">>, <<"r", "e", "t", "u", "r", "n">>,
                      <<"p", "a", "y", "o", "u", "t">>}

IsWinningsLine(line) ==
    \E keyword \in winnings_keywords : Contains(Lower(line), keyword)

_extract_winnings(lines) ==
    FirstLine(lines, {i \in DOMAIN lines : IsWinningsLine(lines[i])}, UnknownWinnings)

(***************************************************************************)
(* scan_for_bets: what the driver finds, and the two strategies            *)
(***************************************************************************)
MaxContainers == 2

MaxRows == 2

\* iterations after the first one in the specification of repeated scans
MaxRescans == 1

ScenarioText ==
    <<"A", "r", "s", "e", "n", "a", "l", " ", "v", "s", " ", "C", "h",
      "e", "l", "s", "e", "a", "\n", "1", "X", "2", " ", "H", "o", "m",
      "e", "\n", "EUR", "2", "5", ".", "0", "0", " ", "s", "t", "a",
      "k", "e", "\n", "2", ".", "4", "0", "\n", "P", "o", "s", "s",
      "i", "b", "l", "e", " ", "w", "i", "n", " ", "EUR", "6", "0",
      ".", "0", "0">>

ShortText == <<"B", "e", "t", " ", "1">>

PaddedText ==
    <<" ", " ", "L", "e", "e", "d", "s", " ", "U", "n", "i", "t", "e",
      "d", "\n", "O", "v", "e", "r", " ", "2", ".", "5", "\n">>

\* An element matched by a container selector: its text, its id attribute
\* ("" when it has none) and whether reading it raises (stale element)
Elements ==
    [text : {ScenarioText, ShortText, PaddedText, <<>>}, id : {"", "slip1"},
     stale : {FALSE}]
    \cup {[text |-> ScenarioText, id |-> "slip2", stale |-> TRUE]}

CellTeams == <<"A", "j", "a", "x", " ", "-", " ", "P", "S", "V">>

CellStake == <<"EUR", "5">>

\* A table row: the texts of its td cells and whether reading it raises
Rows ==
    {[cells |-> <<CellTeams, CellStake>>, stale |-> FALSE],
     [cells |-> <<CellTeams, <<>>, CellStake>>, stale |-> FALSE],
     [cells |-> <<CellTeams, <<"D", "r", "a", "w">>, CellStake,
                  <<" ", "1", ".", "8", "5", " ">>, CellStake>>,
      stale |-> FALSE],
     [cells |-> <<CellTeams, <<" ", "1", ".", "8", "5", " ">>, CellStake>>,
      stale |-> TRUE]}

\* What one scan finds: bet_elements after list(set(...)), the table rows,
\* whether find_elements for the rows raises, and the clock
Pages ==
    [containers : SeqsUpTo(Elements, MaxContainers),
     rows : SeqsUpTo(Rows, MaxRows),
     rows_raise : BOOLEAN,
     now : {1700000000}]

\* the pages of the repeated scans: bet containers or a bet table, and
\* find_elements does not raise
RescanPages ==
    {p \in Pages : ~p.rows_raise /\ (p.containers = <<>> \/ p.rows = <<>>)}

NoPage == [containers |-> <<>>, rows |-> <<>>, rows_raise |-> FALSE,
           now |-> 0]

\* int(time.time()) at a later scan of the same page: the same second, or the
\* second after a sleep of 1800 s
RescanTimes == {1700000000, 1700001800}

ContainerBetIdByIndex(element, index, now) ==
    IF element.id # ""
    THEN [kind |-> "attr", name |-> element.id, time |-> 0, index |-> 0]
    ELSE [kind |-> "bet", name |-> "", time |-> 0, index |-> index]

\* element.get_attribute('id') or f"bet_{int(time.time())}_{index}"
ContainerBetId(element, index, now) ==
    IF element.id # ""
    THEN [kind |-> "attr", name |-> element.id, time |-> 0, index |-> 0]
    ELSE [kind |-> "bet", name |-> "", time |-> now, index |-> index]

\* f"row_bet_{int(time.time())}_{index}"
RowBetId(index, now) == [kind |-> "row_bet", name |-> "", time |-> now, index |-> index]

MinTextLength == 10

\* _extract_bet_info: no record (None) for a stale element or a text shorter
\* than 10 characters, else the record; returned as <<>> or <<record>>
_extract_bet_info(element, index, now) ==
    LET text == TextStrip(element.text)
        lines == SplitLines(text)
    IN  IF element.stale \/ text = <<>> \/ Len(text) < MinTextLength
        THEN <<>>
        ELSE <<[betslip_id |-> ContainerBetId(element, index, now),
                teams |-> _extract_teams(lines),
                market |-> _extract_market(lines),
                stake |-> _extract_stake(lines),
                odds |-> _extract_odds(lines),
                possible_winnings |-> _extract_winnings(lines)]>>

MinCells == 3

\* cell_texts[k] if len(cell_texts) > k else "Unknown"
CellOrUnknown(cell_texts, k) ==
    IF Len(cell_texts) > k THEN cell_texts[k + 1] ELSE Unknown

\* _extract_bet_from_row, returned as <<>> or <<record>>
_extract_bet_from_row(row, index, now) ==
    LET cell_texts == [k \in DOMAIN row.cells |-> TextStrip(row.cells[k])]
    IN  IF row.stale \/ Len(row.cells) < MinCells
        THEN <<>>
        ELSE <<[betslip_id |-> RowBetId(index, now),
                teams |-> CellOrUnknown(cell_texts, 0),
                market |-> CellOrUnknown(cell_texts, 1),
                stake |-> CellOrUnknown(cell_texts, 2),
                odds |-> CellOrUnknown(cell_texts, 3),
                possible_winnings |-> CellOrUnknown(cell_texts, 4)]>>

\* for i, element in enumerate(bet_elements): bets.append(bet_info)
RECURSIVE ExtractContainers(_, _, _)
ExtractContainers(elements, i, now) ==
    IF i > Len(elements) THEN <<>>
    ELSE _extract_bet_info(elements[i], i - 1, now)
         \o ExtractContainers(elements, i + 1, now)

\* for i, row in enumerate(table_rows): bets.append(bet_info)
RECURSIVE ExtractRows(_, _, _)
ExtractRows(rows, i, now) ==
    IF i > Len(rows) THEN <<>>
    ELSE _extract_bet_from_row(rows[i], i - 1, now)
         \o ExtractRows(rows, i + 1, now)

RowStrategyAlways(found) == TRUE

\* if not bets: the table rows are tried
NeedsRowStrategy(found) == found = <<>>

(***************************************************************************)
(* EnhancedBrowserManager._verify_browser_proxy                            *)
(***************************************************************************)
\* proxy_config.expected_ip as characters (the address of expected_ip)
ExpectedIpChars == <<"2", "0", "3", ".", "0", ".", "1", "1", "3", ".", "9">>

OtherIpChars == <<"2", "0", "3", ".", "0", ".", "1", "1", "3", ".", "8">>

\* an address that has the expected one as a prefix
LongerIpChars == <<"2", "0", "3", ".", "0", ".", "1", "1", "3", ".", "9", "9">>

\* the document api.ipify.org?format=json answers with
IpJson(ip) == <<"{", "i", "p", ":">> \o ip \o <<"}">>

\* driver.get of the IP service and driver.page_source: the get (or reading
\* the page source) raises, or the browser shows a page
BrowserProxyPages ==
    {[kind |-> "get_raises", source |-> <<>>]}
    \cup {[kind |-> "page", source |-> src] :
             src \in {IpJson(ExpectedIpChars), IpJson(OtherIpChars),
                      IpJson(LongerIpChars), <<>>}}

NoProxyPage == [kind |-> "none", source |-> <<>>]

ExpectedIpIgnored(source, expected) == TRUE

\* self.proxy_config.expected_ip in page_source
ExpectedIpInPage(source, expected) == Contains(source, expected)

\* EnhancedBrowserManager._verify_browser_proxy
_verify_browser_proxy(p, expected) ==
    IF p.kind = "get_raises" THEN FALSE
    ELSE ExpectedIpInPage(p.source, expected)

(***************************************************************************)
(* EnhancedBetMonitor.navigate_to_bet_history and _verify_bet_page         *)
(***************************************************************************)
urls == <<"https://www.bwin.com/en/sports/my-bets/open",
          "https://www.bwin.com/en/sports/my-bets",
          "https://www.bwin.com/en/mybets">>

HomeUrl == <<"/", "e", "n", "/", "s", "p", "o", "r", "t", "s">>

\* What one entry point shows: driver.get raises, or the page is loaded and
\* find_elements for the bet indicators finds something, finds nothing or
\* raises, with current_url the address the browser ended at
EntryPages ==
    {[get |-> "raises", indicators |-> "absent", current_url |-> HomeUrl]}
    \cup [get : {"loaded"}, indicators : {"found", "raises"},
          current_url : {HomeUrl}]
    \cup [get : {"loaded"}, indicators : {"absent"},
          current_url : {HomeUrl, <<"/", "M", "Y", "B", "E", "T", "S">>}]

Sites == [DOMAIN urls -> EntryPages]

NoSite == [i \in DOMAIN urls |->
              [get |-> "none", indicators |-> "absent", current_url |-> HomeUrl]]

\* EnhancedBetMonitor._verify_bet_page
_verify_bet_page(p) ==
    IF p.indicators = "raises" THEN FALSE
    ELSE IF p.indicators = "found" THEN TRUE
    ELSE Contains(Lower(p.current_url), <<"b", "e", "t">>)

VisitAllEntryPoints(confirmed) == FALSE

\* if self._verify_bet_page(): return True
ReturnAtConfirmed(confirmed) == confirmed

\* for url in urls: from entry point i on, with the entry points loaded so far
RECURSIVE navigate_to_bet_history(_, _, _)
navigate_to_bet_history(site, i, visited) ==
    IF i > Len(urls) THEN [result |-> FALSE, visited |-> visited]
    ELSE IF site[i].get = "raises"
         THEN [result |-> FALSE, visited |-> Append(visited, urls[i])]
         ELSE IF ReturnAtConfirmed(_verify_bet_page(site[i]))
              THEN [result |-> TRUE, visited |-> Append(visited, urls[i])]
              ELSE navigate_to_bet_history(site, i + 1, Append(visited, urls[i]))

(***************************************************************************)
(* Login: EnhancedBwinLogin.login and _attempt_login                       *)
(***************************************************************************)
\* max_attempts of EnhancedBwinLogin.login
max_attempts == 3

LoginUrl == <<"/", "l", "o", "g", "i", "n", "?", "r", "u", "r", "l">>

MixedCaseLoginUrl == <<"/", "L", "o", "g", "i", "n">>

MyBetsUrl == <<"/", "m", "y", "-", "b", "e", "t", "s">>

\* What one attempt meets: fault is the step that fails before the form is
\* submitted ("none" when it is submitted), url is driver.current_url after
\* the wait, indicator is the outcome of the find_element calls for the user
\* indicators ("raises": an exception other than NoSuchElementException)
LoginPages ==
    [fault : {"get_raises", "no_username_field", "no_password_field"},
     url : {LoginUrl}, indicator : {"absent"}]
    \cup [fault : {"none"}, url : {LoginUrl, MixedCaseLoginUrl, MyBetsUrl},
          indicator : {"found", "absent", "raises"}]

NoAttempt ==
    [exists |-> FALSE,
     page |-> [fault |-> "none", url |-> LoginUrl, indicator |-> "absent"],
     result |-> FALSE]

\* if 'login' not in current_url.lower()
UrlLeftLogin(url) == ~Contains(Lower(url), <<"l", "o", "g", "i", "n">>)

IndicatorMustBeFound(indicator) == indicator = "found"

\* the loop over user_indicators: return True when one is found, return True
\* after the loop when none is; any other exception reaches the except clause
AfterIndicatorCheck(indicator) == indicator # "raises"

\* EnhancedBwinLogin._attempt_login
_attempt_login(p) ==
    IF p.fault = "get_raises" THEN FALSE
    ELSE IF p.fault = "no_username_field" THEN FALSE
    ELSE IF p.fault = "no_password_field" THEN FALSE
    ELSE IF UrlLeftLogin(p.url) THEN AfterIndicatorCheck(p.indicator)
    ELSE FALSE

BackoffAlways(attempt) == TRUE

\* if attempt < max_attempts: time.sleep(5)
BackoffDue(attempt) == attempt < max_attempts

(***************************************************************************)
(* Configuration: load_configuration and the validated dataclasses         *)
(***************************************************************************)
\* os.getenv of a variable that is not set
Unset == "<unset>"

required_vars == {"PROXY_HOST", "PROXY_PORT", "PROXY_USERNAME", "PROXY_PASSWORD",
                  "EXPECTED_PROXY_IP", "BWIN_USERNAME", "BWIN_PASSWORD",
                  "TELEGRAM_BOT_TOKEN", "TELEGRAM_CHAT_ID"}

\* the decimal texts that int() is given here, with their values; int() of
\* any other text of the model raises ValueError
IntLiterals == {<<"0", 0>>, <<"1", 1>>, <<"8080", 8080>>, <<"65535", 65535>>,
                <<"65536", 65536>>, <<"30", 30>>, <<"1800", 1800>>,
                <<"7200", 7200>>, <<"-5", 0 - 5>>}

ParseInt(text) ==
    IF \E p \in IntLiterals : p[1] = text
    THEN [ok |-> TRUE, val |-> (CHOOSE p \in IntLiterals : p[1] = text)[2]]
    ELSE [ok |-> FALSE, val |-> 0]

\* os.getenv(key, default)
GetEnv(e, key, default) == IF e[key] = Unset THEN default ELSE e[key]

NoneMissing(e) == {}

\* missing_vars = [var for var in required_vars if not os.getenv(var)]
MissingVars(e) == {var \in required_vars : e[var] \in {Unset, ""}}

PortUnchecked(port) == TRUE

\* ProxyConfig.__post_init__: 1 <= self.port <= 65535
PortInRange(port) == 1 <= port /\ port <= 65535

NoProxyConfig == [exists |-> FALSE, host |-> "", port |-> 0, username |-> "",
                  password |-> "", expected_ip |-> ""]

NoLoginCredentials == [exists |-> FALSE, username |-> "", password |-> ""]

NoTelegramConfig == [exists |-> FALSE, bot_token |-> "", chat_id |-> ""]

NoConfig == [proxy |-> NoProxyConfig, login |-> NoLoginCredentials,
             telegram |-> NoTelegramConfig]

\* ProxyConfig(...): the object, or no object when __post_init__ raises
NewProxyConfig(host, port, username, password, ip) ==
    IF host = "" \/ username = "" \/ ~PortInRange(port)
    THEN NoProxyConfig
    ELSE [exists |-> TRUE, host |-> host, port |-> port, username |-> username,
          password |-> password, expected_ip |-> ip]

\* LoginCredentials(...)
NewLoginCredentials(username, password) ==
    IF username = "" \/ password = ""
    THEN NoLoginCredentials
    ELSE [exists |-> TRUE, username |-> username, password |-> password]

\* TelegramConfig(...)
NewTelegramConfig(bot_token, chat_id) ==
    IF bot_token = "" \/ chat_id = ""
    THEN NoTelegramConfig
    ELSE [exists |-> TRUE, bot_token |-> bot_token, chat_id |-> chat_id]

\* load_configuration: the objects constructed, whether it returned (loaded)
\* or called sys.exit(1), and the check interval it returned
LoadResult(e) ==
    LET port == ParseInt(e["PROXY_PORT"])
        proxy == NewProxyConfig(e["PROXY_HOST"], port.val, e["PROXY_USERNAME"],
                                e["PROXY_PASSWORD"], e["EXPECTED_PROXY_IP"])
        login == NewLoginCredentials(e["BWIN_USERNAME"], e["BWIN_PASSWORD"])
        telegram == NewTelegramConfig(e["TELEGRAM_BOT_TOKEN"], e["TELEGRAM_CHAT_ID"])
        interval == ParseInt(GetEnv(e, "CHECK_INTERVAL", "30"))
        failed(c) == [loaded |-> FALSE, config |-> c, check_interval |-> 0]
    IN  IF MissingVars(e) # {} THEN failed(NoConfig)
        ELSE IF ~port.ok \/ ~proxy.exists THEN failed(NoConfig)
        ELSE IF ~login.exists THEN failed([NoConfig EXCEPT !.proxy = proxy])
        ELSE IF ~telegram.exists
             THEN failed([NoConfig EXCEPT !.proxy = proxy, !.login = login])
        ELSE LET c == [proxy |-> proxy, login |-> login, telegram |-> telegram]
             IN  IF ~interval.ok THEN failed(c)
                 ELSE [loaded |-> TRUE, config |-> c, check_interval |-> interval.val]

\* CHECK_INTERVAL texts of the runs that are followed through initialization
CheckIntervalTexts == {"1800", "7200", "-5"}

\* An environment with every required variable set
Baseline(interval) ==
    [PROXY_HOST |-> "v", PROXY_PORT |-> "8080", PROXY_USERNAME |-> "v",
     PROXY_PASSWORD |-> "v", EXPECTED_PROXY_IP |-> "v", BWIN_USERNAME |-> "v",
     BWIN_PASSWORD |-> "v", TELEGRAM_BOT_TOKEN |-> "v", TELEGRAM_CHAT_ID |-> "v",
     CHECK_INTERVAL |-> interval]

\* values that make a required variable unusable
Defects(var) ==
    IF var = "PROXY_PORT" THEN {Unset, "", "0", "65536", "abc"} ELSE {Unset, ""}

\* The environments of the runs: complete ones, and ones with one defect
Envs ==
    {Baseline(i) : i \in CheckIntervalTexts \cup {"abc"}}
    \cup UNION {{[Baseline(i) EXCEPT ![var] = d] : d \in Defects(var)} :
                 i \in CheckIntervalTexts, var \in required_vars}

TextValues == {Unset, "", "v"}

\* Every combination of values of the variables load_configuration reads
ConfigEnvs ==
    [PROXY_HOST : TextValues,
     PROXY_PORT : {Unset, "", "0", "1", "8080", "65535", "65536", "abc"},
     PROXY_USERNAME : TextValues,
     PROXY_PASSWORD : TextValues, EXPECTED_PROXY_IP : TextValues,
     BWIN_USERNAME : TextValues, BWIN_PASSWORD : TextValues,
     TELEGRAM_BOT_TOKEN : TextValues, TELEGRAM_CHAT_ID : TextValues,
     CHECK_INTERVAL : {Unset, "", "30", "1800", "-5", "abc"}]

(***************************************************************************)
(* Initial state: main() is about to call load_configuration.              *)
(***************************************************************************)
\* default of the max_errors parameter of run_monitoring_loop
default_max_errors == 5

InitWith(envs, files, pages, start) ==
    /\ pc = "load_configuration"
    /\ page \in pages
    /\ scan_pc = start
    /\ scan_bets = <<>>
    /\ used_rows = FALSE
    /\ proxy_page = NoProxyPage
    /\ nav_site = NoSite
    /\ nav_visited = <<>>
    /\ env \in envs
    /\ config = NoConfig
    /\ probed = <<>>
    /\ vp_result = "none"
    /\ browser = NoBrowser
    /\ launch_result = "none"
    /\ telegram_notifier = FALSE
    /\ status_log = <<>>
    /\ login_attempts = 0
    /\ login_result = "none"
    /\ login_log = <<>>
    /\ last_attempt = NoAttempt
    /\ bet_monitor = FALSE
    /\ nav_result = "none"
    /\ monitoring_active = FALSE
    /\ init_result = "none"
    /\ known_bets = {}
    /\ bet_history = <<>>
    /\ current_bets = <<>>
    /\ new_bets = <<>>
    /\ notify_i = 0
    /\ notified = <<>>
    /\ file \in files
    /\ save_ret = "none"
    /\ cleanup_ret = "none"
    /\ check_interval = 0
    /\ consecutive_errors = 0
    /\ check_count = 0
    /\ exit_code = "none"
    /\ max_errors = default_max_errors
    /\ last_save = "none"
    /\ send_results = <<>>
    /\ scan_error = FALSE
    /\ recover_result = "none"
    /\ failed_streak = 0
    /\ failures = 0
    /\ cleanups = 0

Init == InitWith(Envs, {Absent, EarlierDocument}, {NoPage}, "idle")

InitConfig == InitWith(ConfigEnvs, {Absent}, {NoPage}, "idle")

InitScan == InitWith({Baseline("1800")}, {Absent}, Pages, "start")

InitRescan == InitWith({Baseline("1800")}, {Absent}, RescanPages, "start")

MainIdle ==
    UNCHANGED <<pc, probed, vp_result, browser, launch_result,
                telegram_notifier, status_log, login_attempts, login_result,
                login_log, last_attempt, proxy_page, nav_site, nav_visited,
                bet_monitor, nav_result, monitoring_active, init_result,
                known_bets, bet_history, current_bets, new_bets, notify_i,
                notified, file, save_ret, cleanup_ret, check_interval,
                consecutive_errors, check_count, exit_code, max_errors,
                last_save, send_results, scan_error, recover_result,
                failed_streak, failures, cleanups, env, config>>

\* scan_for_bets, Strategy 1: every container element goes through
\* _extract_bet_info; an element that yields None or raises is passed over
ScanContainers ==
    /\ scan_pc = "start"
    /\ scan_bets' = ExtractContainers(page.containers, 1, page.now)
    /\ scan_pc' = "containers_done"
    /\ UNCHANGED <<page, used_rows>>
    /\ MainIdle

\* scan_for_bets, Strategy 2 and the return: if not bets, the rows go through
\* _extract_bet_from_row; an exception of find_elements makes the scan log
\* the error and return []
ScanRows ==
    /\ scan_pc = "containers_done"
    /\ IF NeedsRowStrategy(scan_bets)
       THEN /\ used_rows' = TRUE
            /\ IF page.rows_raise
               THEN scan_bets' = <<>> /\ scan_pc' = "returned_error"
               ELSE /\ scan_bets' = scan_bets \o
                        ExtractRows(page.rows, 1, page.now)
                    /\ scan_pc' = "returned"
       ELSE UNCHANGED <<scan_bets, used_rows>> /\ scan_pc' = "returned"
    /\ UNCHANGED page
    /\ MainIdle


\* main: load_configuration(); sys.exit(1) when it fails, else the monitor is
\* constructed and initialize is called
LoadConfiguration ==
    /\ pc = "load_configuration"
    /\ LET r == LoadResult(env) IN
       /\ config' = r.config
       /\ check_interval' = r.check_interval
       /\ IF r.loaded
          THEN pc' = "verify_proxy" /\ exit_code' = exit_code
          ELSE pc' = "exited" /\ exit_code' = 1
    /\ UNCHANGED <<proxy_page, nav_site, nav_visited, login_log, last_attempt, page, scan_pc, scan_bets, used_rows, env, failures, max_errors, last_save,
                   send_results, scan_error, recover_result, failed_streak,
                   cleanups, probed, vp_result, browser, launch_result,
                   telegram_notifier, status_log, login_attempts,
                   login_result, bet_monitor, nav_result, monitoring_active,
                   init_result, known_bets, bet_history, current_bets,
                   new_bets, notify_i, notified, file, save_ret,
                   cleanup_ret, consecutive_errors, check_count>>

(***************************************************************************)
(* BwinBetMonitor.initialize                                               *)
(***************************************************************************)
\* telegram_notifier.send_status_update(msg): one send attempt
SendStatus(log, msg) == Append(log, msg)

FailureStatuses == {"startup_failed_proxy", "startup_failed_login",
                    "startup_failed_history", "startup_failed_exception"}

\* for service in ip_services: one requests.get and the handling of its answer
VerifyProbe ==
    /\ pc = "verify_proxy"
    /\ \E r \in Responses :
         LET i == Len(probed) + 1
             o == ProbeOutcome(ip_services[i], r) IN
         /\ probed' = Append(probed, r)
         /\ CASE o = "match" -> vp_result' = "true" /\ pc' = "vp_returned"
              [] o = "raise" -> vp_result' = "raised" /\ pc' = "vp_returned"
              [] o = "next" ->
                   IF i = Len(ip_services)
                   THEN vp_result' = "false" /\ pc' = "vp_returned"
                   ELSE vp_result' = vp_result /\ pc' = pc
    /\ UNCHANGED <<proxy_page, nav_site, nav_visited, login_log, last_attempt, page, scan_pc, scan_bets, used_rows, env, config, failures, max_errors, last_save,
                   send_results, scan_error, recover_result, failed_streak,
                   cleanups, browser, launch_result, telegram_notifier,
                   status_log, login_attempts, login_result, bet_monitor,
                   nav_result, monitoring_active, init_result, known_bets,
                   bet_history, current_bets, new_bets, notify_i, notified,
                   file, save_ret, cleanup_ret, check_interval,
                   consecutive_errors, check_count, exit_code>>

ProxyResultIgnored(r) == r # "raised"

\* the test of step 1: verify_proxy returned True
ProxyOk(r) == r = "true"

\* An exception left verify_proxy: control goes to the except clause
InitProxyRaised ==
    /\ pc = "vp_returned"
    /\ vp_result = "raised"
    /\ probed' = <<>>
    /\ pc' = "init_except"
    /\ UNCHANGED <<proxy_page, nav_site, nav_visited, login_log, last_attempt, page, scan_pc, scan_bets, used_rows, env, config, failures, max_errors, last_save,
                   send_results, scan_error, recover_result, failed_streak,
                   cleanups, vp_result, browser, launch_result,
                   telegram_notifier, status_log, login_attempts,
                   login_result, bet_monitor, nav_result, monitoring_active,
                   init_result, known_bets, bet_history, current_bets,
                   new_bets, notify_i, notified, file, save_ret,
                   cleanup_ret, check_interval, consecutive_errors,
                   check_count, exit_code>>

\* Step 1 failed: construct the notifier, send the failure status, return False.
\* Constructing the Bot may raise (bot_ok = FALSE), which leads to the except
\* clause with telegram_notifier still unset.
InitProxyKillSwitch ==
    /\ pc = "vp_returned"
    /\ vp_result # "raised"
    /\ ~ProxyOk(vp_result)
    /\ probed' = <<>>
    /\ \E bot_ok \in BOOLEAN :
         IF bot_ok
         THEN /\ telegram_notifier' = TRUE
              /\ status_log' = SendStatus(status_log, "startup_failed_proxy")
              /\ init_result' = "false"
              /\ pc' = "init_returned"
         ELSE /\ pc' = "init_except"
              /\ UNCHANGED <<telegram_notifier, status_log, init_result>>
    /\ UNCHANGED <<proxy_page, nav_site, nav_visited, login_log, last_attempt, page, scan_pc, scan_bets, used_rows, env, config, failures, max_errors, last_save,
                   send_results, scan_error, recover_result, failed_streak,
                   cleanups, vp_result, browser, launch_result,
                   login_attempts, login_result, bet_monitor, nav_result,
                   monitoring_active, known_bets, bet_history, current_bets,
                   new_bets, notify_i, notified, file, save_ret,
                   cleanup_ret, check_interval, consecutive_errors,
                   check_count, exit_code>>

\* Step 2 begins: EnhancedBrowserManager(...) is constructed
InitConstructBrowserManager ==
    /\ pc = "vp_returned"
    /\ vp_result # "raised"
    /\ ProxyOk(vp_result)
    /\ probed' = <<>>
    /\ browser' = [browser EXCEPT !.mgr = TRUE]
    /\ pc' = "launch_chrome"
    /\ UNCHANGED <<proxy_page, nav_site, nav_visited, login_log, last_attempt, page, scan_pc, scan_bets, used_rows, env, config, failures, max_errors, last_save,
                   send_results, scan_error, recover_result, failed_streak,
                   cleanups, vp_result, launch_result, telegram_notifier,
                   status_log, login_attempts, login_result, bet_monitor,
                   nav_result, monitoring_active, init_result, known_bets,
                   bet_history, current_bets, new_bets, notify_i, notified,
                   file, save_ret, cleanup_ret, check_interval,
                   consecutive_errors, check_count, exit_code>>

\* EnhancedBrowserManager.launch_chrome: the try block, and on any exception
\* self.cleanup() and re-raise into the except clause of initialize
LaunchChrome ==
    /\ pc = "launch_chrome"
    /\ \E o \in LaunchOutcomes, p \in BrowserProxyPages :
         /\ proxy_page' = IF o = "driver_ready" THEN p ELSE NoProxyPage
         /\ IF o = "driver_ready" /\ _verify_browser_proxy(p, ExpectedIpChars)
            THEN /\ browser' = LaunchBody(browser, o)
                 /\ launch_result' = "ok"
                 /\ pc' = "init_telegram"
            ELSE /\ browser' = BrowserManagerCleanup(LaunchBody(browser, o))
                 /\ launch_result' = "fail"
                 /\ pc' = "init_except"
    /\ UNCHANGED <<nav_site, nav_visited, login_log, last_attempt, page,
                   scan_pc, scan_bets, used_rows, env, config, failures,
                   max_errors, last_save, send_results, scan_error,
                   recover_result, failed_streak, cleanups, probed,
                   vp_result, telegram_notifier, status_log, login_attempts,
                   login_result, bet_monitor, nav_result, monitoring_active,
                   init_result, known_bets, bet_history, current_bets,
                   new_bets, notify_i, notified, file, save_ret,
                   cleanup_ret, check_interval, consecutive_errors,
                   check_count, exit_code>>

\* Step 3: construct the notifier and send the start-up status
InitTelegram ==
    /\ pc = "init_telegram"
    /\ \E bot_ok \in BOOLEAN :
         IF bot_ok
         THEN /\ telegram_notifier' = TRUE
              /\ status_log' = SendStatus(status_log, "starting_up")
              /\ pc' = "login"
         ELSE /\ pc' = "init_except"
              /\ UNCHANGED <<telegram_notifier, status_log>>
    /\ UNCHANGED <<proxy_page, nav_site, nav_visited, login_log, last_attempt, page, scan_pc, scan_bets, used_rows, env, config, failures, max_errors, last_save,
                   send_results, scan_error, recover_result, failed_streak,
                   cleanups, probed, vp_result, browser, launch_result,
                   login_attempts, login_result, bet_monitor, nav_result,
                   monitoring_active, init_result, known_bets, bet_history,
                   current_bets, new_bets, notify_i, notified, file,
                   save_ret, cleanup_ret, check_interval,
                   consecutive_errors, check_count, exit_code>>

\* EnhancedBwinLogin.login: one pass of the retry loop (_attempt_login never
\* raises: it returns False on any exception)
LoginAttempt ==
    /\ pc = "login"
    /\ login_attempts < max_attempts
    /\ login_attempts' = login_attempts + 1
    /\ proxy_page' = NoProxyPage
    /\ \E p \in LoginPages :
         LET ok == _attempt_login(p) IN
         /\ last_attempt' = [exists |-> TRUE, page |-> p, result |-> ok]
         /\ login_log' =
                IF ok THEN Append(login_log, "ok")
                ELSE IF BackoffDue(login_attempts + 1)
                     THEN login_log \o <<"fail", "sleep">>
                     ELSE Append(login_log, "fail")
         /\ IF ok
            THEN login_result' = "ok" /\ pc' = "login_returned"
            ELSE IF login_attempts + 1 < max_attempts
                 THEN login_result' = login_result /\ pc' = pc
                 ELSE login_result' = "fail" /\ pc' = "login_returned"
    /\ UNCHANGED <<nav_site, nav_visited, page, scan_pc, scan_bets,
                   used_rows, env, config, failures, max_errors, last_save,
                   send_results, scan_error, recover_result, failed_streak,
                   cleanups, probed, vp_result, browser, launch_result,
                   telegram_notifier, status_log, bet_monitor, nav_result,
                   monitoring_active, init_result, known_bets, bet_history,
                   current_bets, new_bets, notify_i, notified, file,
                   save_ret, cleanup_ret, check_interval,
                   consecutive_errors, check_count, exit_code>>

StageOkAlways(result) == TRUE

\* the test that a stage of step 4 returned True
StageOk(result) == result = "ok"

\* Step 4 after login() returned: on failure send the status and clean up,
\* otherwise construct EnhancedBetMonitor (empty known_bets and bet_history)
InitAfterLogin ==
    /\ pc = "login_returned"
    /\ login_attempts' = 0
    /\ login_log' = <<>>
    /\ last_attempt' = NoAttempt
    /\ IF StageOk(login_result)
       THEN /\ bet_monitor' = TRUE
            /\ pc' = "navigate"
            /\ UNCHANGED <<status_log, cleanup_ret>>
       ELSE /\ status_log' = SendStatus(status_log, "startup_failed_login")
            /\ cleanup_ret' = "init_return_false"
            /\ pc' = "cleanup"
            /\ UNCHANGED bet_monitor
    /\ UNCHANGED <<proxy_page, nav_site, nav_visited, page, scan_pc, scan_bets, used_rows, env, config,
                   failures, max_errors, last_save, send_results,
                   scan_error, recover_result, failed_streak, cleanups,
                   probed, vp_result, browser, launch_result,
                   telegram_notifier, login_result, nav_result,
                   monitoring_active, init_result, known_bets, bet_history,
                   current_bets, new_bets, notify_i, notified, file,
                   save_ret, check_interval, consecutive_errors,
                   check_count, exit_code>>

\* bet_monitor.navigate_to_bet_history() called from initialize (it never
\* raises: it returns False on any exception)
InitNavigate ==
    /\ pc = "navigate"
    /\ \E site \in Sites :
         LET r == navigate_to_bet_history(site, 1, <<>>) IN
         /\ nav_site' = site
         /\ nav_visited' = r.visited
         /\ nav_result' = IF r.result THEN "ok" ELSE "fail"
    /\ pc' = "navigate_returned"
    /\ UNCHANGED <<proxy_page, login_log, last_attempt, page, scan_pc,
                   scan_bets, used_rows, env, config, failures, max_errors,
                   last_save, send_results, scan_error, recover_result,
                   failed_streak, cleanups, probed, vp_result, browser,
                   launch_result, telegram_notifier, status_log,
                   login_attempts, login_result, bet_monitor,
                   monitoring_active, init_result, known_bets, bet_history,
                   current_bets, new_bets, notify_i, notified, file,
                   save_ret, cleanup_ret, check_interval,
                   consecutive_errors, check_count, exit_code>>

\* After navigation: success status, monitoring_active = True, return True;
\* or failure status, cleanup, return False
InitAfterNavigate ==
    /\ pc = "navigate_returned"
    /\ nav_site' = NoSite
    /\ nav_visited' = <<>>
    /\ IF StageOk(nav_result)
       THEN /\ status_log' = SendStatus(status_log, "initialized")
            /\ monitoring_active' = TRUE
            /\ init_result' = "true"
            /\ pc' = "init_returned"
            /\ UNCHANGED cleanup_ret
       ELSE /\ status_log' = SendStatus(status_log, "startup_failed_history")
            /\ cleanup_ret' = "init_return_false"
            /\ pc' = "cleanup"
            /\ UNCHANGED <<monitoring_active, init_result>>
    /\ UNCHANGED <<proxy_page, login_log, last_attempt, page, scan_pc,
                   scan_bets, used_rows, env, config, failures, max_errors,
                   last_save, send_results, scan_error, recover_result,
                   failed_streak, cleanups, probed, vp_result, browser,
                   launch_result, telegram_notifier, login_attempts,
                   login_result, bet_monitor, nav_result, known_bets,
                   bet_history, current_bets, new_bets, notify_i, notified,
                   file, save_ret, check_interval, consecutive_errors,
                   check_count, exit_code>>

\* except Exception: status if the notifier exists, then cleanup, return False
InitExcept ==
    /\ pc = "init_except"
    /\ status_log' = IF telegram_notifier
                     THEN SendStatus(status_log, "startup_failed_exception")
                     ELSE status_log
    /\ cleanup_ret' = "init_return_false"
    /\ pc' = "cleanup"
    /\ UNCHANGED <<proxy_page, nav_site, nav_visited, login_log, last_attempt, page, scan_pc, scan_bets, used_rows, env, config, failures,
                   max_errors, last_save, send_results, scan_error,
                   recover_result, failed_streak, cleanups, probed,
                   vp_result, browser, launch_result, telegram_notifier,
                   login_attempts, login_result, bet_monitor, nav_result,
                   monitoring_active, init_result, known_bets, bet_history,
                   current_bets, new_bets, notify_i, notified, file,
                   save_ret, check_interval, consecutive_errors,
                   check_count, exit_code>>

\* return False after self.cleanup()
InitReturnFalse ==
    /\ pc = "init_return_false"
    /\ init_result' = "false"
    /\ cleanup_ret' = "none"
    /\ pc' = "init_returned"
    /\ UNCHANGED <<proxy_page, nav_site, nav_visited, login_log, last_attempt, page, scan_pc, scan_bets, used_rows, env, config, failures,
                   max_errors, last_save, send_results, scan_error,
                   recover_result, failed_streak, cleanups, probed,
                   vp_result, browser, launch_result, telegram_notifier,
                   status_log, login_attempts, login_result, bet_monitor,
                   nav_result, monitoring_active, known_bets, bet_history,
                   current_bets, new_bets, notify_i, notified, file,
                   save_ret, check_interval, consecutive_errors,
                   check_count, exit_code>>

(***************************************************************************)
(* BwinBetMonitor.cleanup and EnhancedBetMonitor.save_bet_history          *)
(***************************************************************************)
CleanupSkipsFlush(monitor) == FALSE

\* if self.bet_monitor: the history is flushed
CleanupFlushes(monitor) == monitor

\* if self.bet_monitor: self.bet_monitor.save_bet_history()
Cleanup ==
    /\ pc = "cleanup"
    /\ IF CleanupFlushes(bet_monitor)
       THEN save_ret' = "cleanup_browser" /\ pc' = "save_open"
       ELSE save_ret' = save_ret /\ pc' = "cleanup_browser"
    /\ cleanups' = cleanups + 1
    /\ UNCHANGED <<proxy_page, nav_site, nav_visited, login_log, last_attempt, page, scan_pc, scan_bets, used_rows, env, config, failures,
                   max_errors, last_save, send_results, scan_error,
                   recover_result, failed_streak, probed, vp_result,
                   browser, launch_result, telegram_notifier, status_log,
                   login_attempts, login_result, bet_monitor, nav_result,
                   monitoring_active, init_result, known_bets, bet_history,
                   current_bets, new_bets, notify_i, notified, file,
                   cleanup_ret, check_interval, consecutive_errors,
                   check_count, exit_code>>

ReleaseOnlyAfterGoodFlush(outcome) == outcome # "failed"

\* save_bet_history catches its own exceptions, so the release that follows
\* it in cleanup runs whatever the outcome of the flush
ReleaseAfterFlush(outcome) == TRUE

\* if self.browser_manager: self.browser_manager.cleanup()
CleanupBrowser ==
    /\ pc = "cleanup_browser"
    /\ browser' = IF browser.mgr /\ ReleaseAfterFlush(last_save)
                THEN BrowserManagerCleanup(browser) ELSE browser
    /\ pc' = cleanup_ret
    /\ UNCHANGED <<proxy_page, nav_site, nav_visited, login_log, last_attempt, page, scan_pc, scan_bets, used_rows, env, config, failures,
                   max_errors, last_save, send_results, scan_error,
                   recover_result, failed_streak, cleanups, probed,
                   vp_result, launch_result, telegram_notifier, status_log,
                   login_attempts, login_result, bet_monitor, nav_result,
                   monitoring_active, init_result, known_bets, bet_history,
                   current_bets, new_bets, notify_i, notified, file,
                   save_ret, cleanup_ret, check_interval,
                   consecutive_errors, check_count, exit_code>>

\* open(filename, 'w'): truncates the file in place; if it raises, the
\* exception is caught and logged and the file is as before
SaveOpen ==
    /\ pc = "save_open"
    /\ \E ok \in BOOLEAN :
         IF ok
         THEN /\ file' = Partial /\ pc' = "save_write" /\ save_ret' = save_ret
              /\ last_save' = last_save
         ELSE /\ file' = file /\ pc' = save_ret /\ save_ret' = "none"
              /\ last_save' = "failed"
    /\ UNCHANGED <<proxy_page, nav_site, nav_visited, login_log, last_attempt, page, scan_pc, scan_bets, used_rows, env, config, failures,
                   max_errors, send_results, scan_error, recover_result,
                   failed_streak, cleanups, probed, vp_result, browser,
                   launch_result, telegram_notifier, status_log,
                   login_attempts, login_result, bet_monitor, nav_result,
                   monitoring_active, init_result, known_bets, bet_history,
                   current_bets, new_bets, notify_i, notified, cleanup_ret,
                   check_interval, consecutive_errors, check_count,
                   exit_code>>

\* json.dump(history_data, f, indent=2) into the truncated file: it either
\* completes, or raises part-way (caught and logged) and leaves what it wrote
SaveWrite ==
    /\ pc = "save_write"
    /\ \E ok \in BOOLEAN :
         /\ file' = IF ok THEN HistoryData(bet_history) ELSE Partial
         /\ last_save' = IF ok THEN "ok" ELSE "failed"
    /\ pc' = save_ret
    /\ save_ret' = "none"
    /\ UNCHANGED <<proxy_page, nav_site, nav_visited, login_log, last_attempt, page, scan_pc, scan_bets, used_rows, env, config, failures,
                   max_errors, send_results, scan_error, recover_result,
                   failed_streak, cleanups, probed, vp_result, browser,
                   launch_result, telegram_notifier, status_log,
                   login_attempts, login_result, bet_monitor, nav_result,
                   monitoring_active, init_result, known_bets, bet_history,
                   current_bets, new_bets, notify_i, notified, cleanup_ret,
                   check_interval, consecutive_errors, check_count,
                   exit_code>>

\* The process is killed while save_bet_history runs
Crash ==
    /\ pc \in {"save_open", "save_write"}
    /\ pc' = "crashed"
    /\ UNCHANGED <<proxy_page, nav_site, nav_visited, login_log, last_attempt, page, scan_pc, scan_bets, used_rows, env, config, failures,
                   max_errors, last_save, send_results, scan_error,
                   recover_result, failed_streak, cleanups, probed,
                   vp_result, browser, launch_result, telegram_notifier,
                   status_log, login_attempts, login_result, bet_monitor,
                   nav_result, monitoring_active, init_result, known_bets,
                   bet_history, current_bets, new_bets, notify_i, notified,
                   file, save_ret, cleanup_ret, check_interval,
                   consecutive_errors, check_count, exit_code>>

(***************************************************************************)
(* EnhancedBetMonitor.check_for_new_bets                                   *)
(***************************************************************************)
IsNewBetAlways(bet, known) == TRUE

\* bet.betslip_id not in self.known_bets
IsNewBet(bet, known) == bet.betslip_id \notin known

PrependHistory(history, bet) == <<bet>> \o history

\* self.bet_history.append(bet)
AppendHistory(history, bet) == Append(history, bet)

BetIdsOf(bets) == {bets[i].betslip_id : i \in DOMAIN bets}

KnownNotUpdated(known, bet) == known

\* self.known_bets.add(bet.betslip_id)
KnownAfterAccept(known, bet) == known \cup {bet.betslip_id}

CheckLoopStaleKnown(scan, known, history, new) ==
    LET fresh == SelectSeq(scan, LAMBDA b : b.betslip_id \notin known) IN
    [known_bets |-> known \cup BetIdsOf(fresh),
     bet_history |-> history \o fresh,
     new_bets |-> new \o fresh]

\* The for loop over current_bets, from the state (known, history, new)
RECURSIVE CheckLoop(_, _, _, _)
CheckLoop(scan, known, history, new) ==
    IF scan = <<>>
    THEN [known_bets |-> known, bet_history |-> history, new_bets |-> new]
    ELSE LET bet == Head(scan) IN
         IF IsNewBet(bet, known)
         THEN CheckLoop(Tail(scan), KnownAfterAccept(known, bet),
                        AppendHistory(history, bet), Append(new, bet))
         ELSE CheckLoop(Tail(scan), known, history, new)

(***************************************************************************)
(* main after initialize, and BwinBetMonitor.run_monitoring_loop           *)
(***************************************************************************)
\* max_errors values a caller passes: the default (main) and a smaller budget
MaxErrorsValues == {2, default_max_errors}

\* Python's a // b and a % b (floor division; the remainder has the sign of b)
FloorDiv(a, b) == IF b > 0 THEN a \div b ELSE -((a + (-b) - 1) \div (-b))

PyMod(a, b) == a - b * FloorDiv(a, b)

\* main: run the loop if initialize returned True, else sys.exit(1)
MainAfterInit ==
    /\ pc = "init_returned"
    /\ IF init_result = "true"
       THEN pc' = "loop_entry" /\ exit_code' = exit_code
       ELSE pc' = "exited" /\ exit_code' = 1
    /\ UNCHANGED <<proxy_page, nav_site, nav_visited, login_log, last_attempt, page, scan_pc, scan_bets, used_rows, env, config, failures,
                   max_errors, last_save, send_results, scan_error,
                   recover_result, failed_streak, cleanups, probed,
                   vp_result, browser, launch_result, telegram_notifier,
                   status_log, login_attempts, login_result, bet_monitor,
                   nav_result, monitoring_active, init_result, known_bets,
                   bet_history, current_bets, new_bets, notify_i, notified,
                   file, save_ret, cleanup_ret, check_interval,
                   consecutive_errors, check_count>>

\* A caller other than main that calls run_monitoring_loop although
\* initialize returned False
CallLoopAfterFailedInit ==
    /\ pc = "init_returned"
    /\ init_result = "false"
    /\ pc' = "loop_entry"
    /\ UNCHANGED <<proxy_page, nav_site, nav_visited, login_log, last_attempt, page, scan_pc, scan_bets, used_rows, env, config, failures,
                   max_errors, last_save, send_results, scan_error,
                   recover_result, failed_streak, cleanups, probed,
                   vp_result, browser, launch_result, telegram_notifier,
                   status_log, login_attempts, login_result, bet_monitor,
                   nav_result, monitoring_active, init_result, known_bets,
                   bet_history, current_bets, new_bets, notify_i, notified,
                   file, save_ret, cleanup_ret, check_interval,
                   consecutive_errors, check_count, exit_code>>

\* run_monitoring_loop: the guard on monitoring_active and the locals
LoopEntry ==
    /\ pc = "loop_entry"
    /\ IF ~monitoring_active
       THEN pc' = "loop_refused"
            /\ UNCHANGED <<consecutive_errors, check_count, max_errors>>
       ELSE /\ pc' = "loop_top" /\ consecutive_errors' = 0 /\ check_count' = 0
            /\ \E m \in MaxErrorsValues : max_errors' = m
    /\ UNCHANGED <<proxy_page, nav_site, nav_visited, login_log, last_attempt, page, scan_pc, scan_bets, used_rows, env, config, failures,
                   last_save, send_results, scan_error, recover_result,
                   failed_streak, cleanups, probed, vp_result, browser,
                   launch_result, telegram_notifier, status_log,
                   login_attempts, login_result, bet_monitor, nav_result,
                   monitoring_active, init_result, known_bets, bet_history,
                   current_bets, new_bets, notify_i, notified, file,
                   save_ret, cleanup_ret, check_interval, exit_code>>

RefreshDueEveryFifth(n) == n % 5 = 0

\* if check_count % 10 == 0: the page is refreshed in this iteration
RefreshDue(n) == n % 10 = 0

\* while self.monitoring_active: check_count += 1
IterStart ==
    /\ pc = "loop_top"
    /\ monitoring_active
    /\ check_count < MaxChecks
    /\ check_count' = check_count + 1
    /\ pc' = IF RefreshDue(check_count + 1) THEN "iter_refresh" ELSE "iter_scan"
    /\ UNCHANGED <<proxy_page, nav_site, nav_visited, login_log, last_attempt, page, scan_pc, scan_bets, used_rows, env, config, failures,
                   max_errors, last_save, send_results, scan_error,
                   recover_result, failed_streak, cleanups, probed,
                   vp_result, browser, launch_result, telegram_notifier,
                   status_log, login_attempts, login_result, bet_monitor,
                   nav_result, monitoring_active, init_result, known_bets,
                   bet_history, current_bets, new_bets, notify_i, notified,
                   file, save_ret, cleanup_ret, check_interval,
                   consecutive_errors, exit_code>>

\* self.driver.refresh(): may raise
IterRefresh ==
    /\ pc = "iter_refresh"
    /\ \E ok \in BOOLEAN : pc' = IF ok THEN "iter_scan" ELSE "iter_except"
    /\ UNCHANGED <<proxy_page, nav_site, nav_visited, login_log, last_attempt, page, scan_pc, scan_bets, used_rows, env, config, failures,
                   max_errors, last_save, send_results, scan_error,
                   recover_result, failed_streak, cleanups, probed,
                   vp_result, browser, launch_result, telegram_notifier,
                   status_log, login_attempts, login_result, bet_monitor,
                   nav_result, monitoring_active, init_result, known_bets,
                   bet_history, current_bets, new_bets, notify_i, notified,
                   file, save_ret, cleanup_ret, check_interval,
                   consecutive_errors, check_count, exit_code>>

\* new_bets = self.bet_monitor.check_for_new_bets()
CheckForNewBets ==
    /\ pc = "iter_scan"
    /\ \E scan \in Scans, raised \in BOOLEAN :
         LET r == CheckLoop(scan, known_bets, bet_history, <<>>) IN
         /\ raised => scan = <<>>
         /\ scan_error' = raised
         /\ current_bets' = scan
         /\ known_bets' = r.known_bets
         /\ bet_history' = r.bet_history
         /\ new_bets' = r.new_bets
    /\ notify_i' = 0
    /\ pc' = "iter_checked"
    /\ UNCHANGED <<proxy_page, nav_site, nav_visited, login_log, last_attempt, page, scan_pc, scan_bets, used_rows, env, config, failures,
                   max_errors, last_save, send_results, recover_result,
                   failed_streak, cleanups, probed, vp_result, browser,
                   launch_result, telegram_notifier, status_log,
                   login_attempts, login_result, bet_monitor, nav_result,
                   monitoring_active, init_result, notified, file, save_ret,
                   cleanup_ret, check_interval, consecutive_errors,
                   check_count, exit_code>>

\* check_for_new_bets after scan_for_bets has returned: the for loop over
\* current_bets
CheckScanned ==
    /\ scan_pc \in {"returned", "returned_error"}
    /\ LET r == CheckLoop(scan_bets, known_bets, bet_history, <<>>) IN
       /\ current_bets' = scan_bets
       /\ known_bets' = r.known_bets
       /\ bet_history' = r.bet_history
       /\ new_bets' = r.new_bets
    /\ scan_pc' = "checked"
    /\ UNCHANGED <<pc, probed, vp_result, browser, launch_result,
                   telegram_notifier, status_log, login_attempts,
                   login_result, login_log, last_attempt, bet_monitor,
                   nav_result, monitoring_active, init_result, notify_i,
                   notified, file, save_ret, cleanup_ret, check_interval,
                   consecutive_errors, check_count, exit_code, max_errors,
                   last_save, send_results, scan_error, recover_result,
                   failed_streak, failures, cleanups, env, config, page,
                   scan_bets, used_rows, proxy_page, nav_site, nav_visited>>

\* the next iteration of the loop scans the same, unchanged page at a later
\* reading of the clock
ScanAgain ==
    /\ scan_pc = "checked"
    /\ check_count < MaxRescans
    /\ check_count' = check_count + 1
    /\ \E t \in RescanTimes :
         /\ t >= page.now
         /\ page' = [page EXCEPT !.now = t]
    /\ scan_bets' = <<>>
    /\ used_rows' = FALSE
    /\ current_bets' = <<>>
    /\ new_bets' = <<>>
    /\ scan_pc' = "start"
    /\ UNCHANGED <<pc, probed, vp_result, browser, launch_result,
                   telegram_notifier, status_log, login_attempts,
                   login_result, login_log, last_attempt, bet_monitor,
                   nav_result, monitoring_active, init_result, known_bets,
                   bet_history, notify_i, notified, file, save_ret,
                   cleanup_ret, check_interval, consecutive_errors,
                   exit_code, max_errors, last_save, send_results,
                   scan_error, recover_result, failed_streak, failures,
                   cleanups, env, config, proxy_page, nav_site, nav_visited>>

\* if new_bets: ... else: "No new bets found"
IterBranch ==
    /\ pc = "iter_checked"
    /\ current_bets' = <<>>
    /\ pc' = IF new_bets # <<>> THEN "iter_notify" ELSE "iter_reset"
    /\ UNCHANGED <<proxy_page, nav_site, nav_visited, login_log, last_attempt, page, scan_pc, scan_bets, used_rows, env, config, scan_error,
                   failures, max_errors, last_save, send_results,
                   recover_result, failed_streak, cleanups, probed,
                   vp_result, browser, launch_result, telegram_notifier,
                   status_log, login_attempts, login_result, bet_monitor,
                   nav_result, monitoring_active, init_result, known_bets,
                   bet_history, new_bets, notify_i, notified, file,
                   save_ret, cleanup_ret, check_interval,
                   consecutive_errors, check_count, exit_code>>

DeliveryFailureRaises(delivered) ==
    IF delivered THEN "iter_notify" ELSE "iter_except"

\* send_bet_notification returns True or False (it catches every exception of
\* the request); the for loop goes on to the next record either way
AfterDelivery(delivered) == "iter_notify"

\* for bet in new_bets: self.telegram_notifier.send_bet_notification(bet)
IterNotify ==
    /\ pc = "iter_notify"
    /\ notify_i < Len(new_bets)
    /\ notified' = Append(notified, new_bets[notify_i + 1].betslip_id)
    /\ notify_i' = notify_i + 1
    /\ \E delivered \in BOOLEAN :
         /\ send_results' = Append(send_results, delivered)
         /\ pc' = AfterDelivery(delivered)
    /\ UNCHANGED <<proxy_page, nav_site, nav_visited, login_log, last_attempt, page, scan_pc, scan_bets, used_rows, env, config, failures,
                   max_errors, last_save, scan_error, recover_result,
                   failed_streak, cleanups, probed, vp_result, browser,
                   launch_result, telegram_notifier, status_log,
                   login_attempts, login_result, bet_monitor, nav_result,
                   monitoring_active, init_result, known_bets, bet_history,
                   current_bets, new_bets, file, save_ret, cleanup_ret,
                   check_interval, consecutive_errors, check_count,
                   exit_code>>

SaveAfterFirstDispatch(i, batch) == i >= 1

\* the for loop over new_bets has run to its end
AllDispatched(i, batch) == i = Len(batch)

\* self.bet_monitor.save_bet_history() after the batch
IterSave ==
    /\ pc = "iter_notify"
    /\ AllDispatched(notify_i, new_bets)
    /\ save_ret' = "iter_reset"
    /\ pc' = "save_open"
    /\ UNCHANGED <<proxy_page, nav_site, nav_visited, login_log, last_attempt, page, scan_pc, scan_bets, used_rows, env, config, failures,
                   max_errors, last_save, send_results, scan_error,
                   recover_result, failed_streak, cleanups, probed,
                   vp_result, browser, launch_result, telegram_notifier,
                   status_log, login_attempts, login_result, bet_monitor,
                   nav_result, monitoring_active, init_result, known_bets,
                   bet_history, current_bets, new_bets, notify_i, notified,
                   file, cleanup_ret, check_interval, consecutive_errors,
                   check_count, exit_code>>

KeepErrors(c) == c

\* consecutive_errors = 0 at the end of an iteration's work
ResetErrors(c) == 0

\* consecutive_errors = 0, then the hourly status:
\* check_count % (3600 // check_interval) == 0 raises ZeroDivisionError when
\* check_interval > 3600
IterReset ==
    /\ pc = "iter_reset"
    /\ consecutive_errors' = ResetErrors(consecutive_errors)
    /\ new_bets' = <<>>
    /\ notify_i' = 0
    /\ LET every == FloorDiv(3600, check_interval) IN
       IF every = 0
       THEN /\ pc' = "iter_except"
            /\ UNCHANGED <<status_log, send_results, failed_streak>>
       ELSE /\ pc' = "iter_sleep"
            /\ failed_streak' = 0
            /\ IF PyMod(check_count, every) = 0
               THEN /\ status_log' = SendStatus(status_log, "monitor_active")
                    /\ \E delivered \in BOOLEAN :
                         send_results' = Append(send_results, delivered)
               ELSE UNCHANGED <<status_log, send_results>>
    /\ UNCHANGED <<proxy_page, nav_site, nav_visited, login_log, last_attempt, page, scan_pc, scan_bets, used_rows, env, config, failures,
                   max_errors, last_save, scan_error, recover_result,
                   cleanups, probed, vp_result, browser, launch_result,
                   telegram_notifier, login_attempts, login_result,
                   bet_monitor, nav_result, monitoring_active, init_result,
                   known_bets, bet_history, current_bets, notified, file,
                   save_ret, cleanup_ret, check_interval, check_count,
                   exit_code>>

\* if consecutive_errors >= max_errors
BudgetExhausted(c, m) == c >= m

\* except Exception: count the error; stop on the budget, else go on to recover
IterExcept ==
    /\ pc = "iter_except"
    /\ consecutive_errors' = consecutive_errors + 1
    /\ IF BudgetExhausted(consecutive_errors + 1, max_errors)
       THEN /\ status_log' = SendStatus(status_log, "too_many_errors")
            /\ pc' = "loop_finally"
       ELSE /\ status_log' = status_log
            /\ pc' = "iter_recover"
    /\ failed_streak' = failed_streak + 1
    /\ failures' = failures + 1
    /\ UNCHANGED <<proxy_page, nav_site, nav_visited, login_log, last_attempt, page, scan_pc, scan_bets, used_rows, env, config, max_errors,
                   last_save, send_results, scan_error, recover_result,
                   cleanups, probed, vp_result, browser, launch_result,
                   telegram_notifier, login_attempts, login_result,
                   bet_monitor, nav_result, monitoring_active, init_result,
                   known_bets, bet_history, current_bets, new_bets,
                   notify_i, notified, file, save_ret, cleanup_ret,
                   check_interval, check_count, exit_code>>

StopWhenRecoveryFails(result) ==
    IF result = "true" THEN "iter_sleep" ELSE "loop_finally"

\* the result of the recovery is discarded (and an exception of it passed
\* over): the sleep at the end of the iteration follows
AfterRecovery(result) == "iter_sleep"

\* the recovery: navigate_to_bet_history(), whose result is not looked at
IterRecover ==
    /\ pc = "iter_recover"
    /\ \E result \in {"true", "false"} :
         /\ recover_result' = result
         /\ pc' = AfterRecovery(result)
    /\ UNCHANGED <<proxy_page, nav_site, nav_visited, login_log, last_attempt, page, scan_pc, scan_bets, used_rows, env, config, failures,
                   max_errors, last_save, send_results, scan_error,
                   failed_streak, cleanups, probed, vp_result, browser,
                   launch_result, telegram_notifier, status_log,
                   login_attempts, login_result, bet_monitor, nav_result,
                   monitoring_active, init_result, known_bets, bet_history,
                   current_bets, new_bets, notify_i, notified, file,
                   save_ret, cleanup_ret, check_interval,
                   consecutive_errors, check_count, exit_code>>

\* time.sleep(check_interval): a negative length raises ValueError, which
\* only the outer except Exception catches
IterSleep ==
    /\ pc = "iter_sleep"
    /\ pc' = IF check_interval < 0 THEN "loop_crashed" ELSE "loop_top"
    /\ recover_result' = "none"
    /\ send_results' = <<>>
    /\ scan_error' = FALSE
    /\ UNCHANGED <<proxy_page, nav_site, nav_visited, login_log, last_attempt, page, scan_pc, scan_bets, used_rows, env, config, failures,
                   max_errors, last_save, failed_streak, cleanups, probed,
                   vp_result, browser, launch_result, telegram_notifier,
                   status_log, login_attempts, login_result, bet_monitor,
                   nav_result, monitoring_active, init_result, known_bets,
                   bet_history, current_bets, new_bets, notify_i, notified,
                   file, save_ret, cleanup_ret, check_interval,
                   consecutive_errors, check_count, exit_code>>

\* Positions inside the outer try block of run_monitoring_loop
InLoopTry ==
    \/ pc \in {"loop_top", "iter_refresh", "iter_scan", "iter_checked",
               "iter_notify", "iter_reset", "iter_except", "iter_recover",
               "iter_sleep"}
    \/ pc \in {"save_open", "save_write"} /\ save_ret = "iter_reset"

\* KeyboardInterrupt is raised at the current position inside the try block
Interrupt ==
    /\ InLoopTry
    /\ pc' = "interrupted"
    /\ save_ret' = "none"
    /\ UNCHANGED <<proxy_page, nav_site, nav_visited, login_log, last_attempt, page, scan_pc, scan_bets, used_rows, env, config, failures,
                   max_errors, last_save, send_results, scan_error,
                   recover_result, failed_streak, cleanups, probed,
                   vp_result, browser, launch_result, telegram_notifier,
                   status_log, login_attempts, login_result, bet_monitor,
                   nav_result, monitoring_active, init_result, known_bets,
                   bet_history, current_bets, new_bets, notify_i, notified,
                   file, cleanup_ret, check_interval, consecutive_errors,
                   check_count, exit_code>>

\* except KeyboardInterrupt: send "Monitor stopped by user"
InterruptHandler ==
    /\ pc = "interrupted"
    /\ status_log' = SendStatus(status_log, "stopped_by_user")
    /\ pc' = "loop_finally"
    /\ UNCHANGED <<proxy_page, nav_site, nav_visited, login_log, last_attempt, page, scan_pc, scan_bets, used_rows, env, config, failures,
                   max_errors, last_save, send_results, scan_error,
                   recover_result, failed_streak, cleanups, probed,
                   vp_result, browser, launch_result, telegram_notifier,
                   login_attempts, login_result, bet_monitor, nav_result,
                   monitoring_active, init_result, known_bets, bet_history,
                   current_bets, new_bets, notify_i, notified, file,
                   save_ret, cleanup_ret, check_interval,
                   consecutive_errors, check_count, exit_code>>

\* except Exception as e: send "Monitor crashed"
LoopCrashHandler ==
    /\ pc = "loop_crashed"
    /\ status_log' = SendStatus(status_log, "monitor_crashed")
    /\ pc' = "loop_finally"
    /\ UNCHANGED <<proxy_page, nav_site, nav_visited, login_log, last_attempt, page, scan_pc, scan_bets, used_rows, env, config, failures,
                   max_errors, last_save, send_results, scan_error,
                   recover_result, failed_streak, cleanups, probed,
                   vp_result, browser, launch_result, telegram_notifier,
                   login_attempts, login_result, bet_monitor, nav_result,
                   monitoring_active, init_result, known_bets, bet_history,
                   current_bets, new_bets, notify_i, notified, file,
                   save_ret, cleanup_ret, check_interval,
                   consecutive_errors, check_count, exit_code>>

\* finally: self.monitoring_active = False; self.cleanup()
LoopFinally ==
    /\ pc = "loop_finally"
    /\ monitoring_active' = FALSE
    /\ current_bets' = <<>>
    /\ new_bets' = <<>>
    /\ notify_i' = 0
    /\ cleanup_ret' = "loop_returned"
    /\ pc' = "cleanup"
    /\ send_results' = <<>>
    /\ scan_error' = FALSE
    /\ recover_result' = "none"
    /\ UNCHANGED <<proxy_page, nav_site, nav_visited, login_log, last_attempt, page, scan_pc, scan_bets, used_rows, env, config, failures,
                   max_errors, last_save, failed_streak, cleanups, probed,
                   vp_result, browser, launch_result, telegram_notifier,
                   status_log, login_attempts, login_result, bet_monitor,
                   nav_result, init_result, known_bets, bet_history,
                   notified, file, save_ret, check_interval,
                   consecutive_errors, check_count, exit_code>>

\* main returns after run_monitoring_loop returned: exit code 0
MainExit ==
    /\ pc = "loop_returned"
    /\ exit_code' = 0
    /\ pc' = "exited"
    /\ UNCHANGED <<proxy_page, nav_site, nav_visited, login_log, last_attempt, page, scan_pc, scan_bets, used_rows, env, config, failures,
                   max_errors, last_save, send_results, scan_error,
                   recover_result, failed_streak, cleanups, probed,
                   vp_result, browser, launch_result, telegram_notifier,
                   status_log, login_attempts, login_result, bet_monitor,
                   nav_result, monitoring_active, init_result, known_bets,
                   bet_history, current_bets, new_bets, notify_i, notified,
                   file, save_ret, cleanup_ret, check_interval,
                   consecutive_errors, check_count>>

Next ==
    \/ LoadConfiguration
    \/ VerifyProbe
    \/ InitProxyRaised
    \/ InitProxyKillSwitch
    \/ InitConstructBrowserManager
    \/ LaunchChrome
    \/ InitTelegram
    \/ LoginAttempt
    \/ InitAfterLogin
    \/ InitNavigate
    \/ InitAfterNavigate
    \/ InitExcept
    \/ InitReturnFalse
    \/ Cleanup
    \/ CleanupBrowser
    \/ SaveOpen
    \/ SaveWrite
    \/ Crash
    \/ MainAfterInit
    \/ CallLoopAfterFailedInit
    \/ LoopEntry
    \/ IterStart
    \/ IterRefresh
    \/ CheckForNewBets
    \/ IterBranch
    \/ IterNotify
    \/ IterSave
    \/ IterReset
    \/ IterExcept
    \/ IterRecover
    \/ IterSleep
    \/ Interrupt
    \/ InterruptHandler
    \/ LoopCrashHandler
    \/ LoopFinally
    \/ MainExit

Spec == Init /\ [][Next]_vars

\* main from load_configuration to the first notification of initialize
NextConfig ==
    \/ LoadConfiguration
    \/ VerifyProbe
    \/ InitProxyRaised
    \/ InitProxyKillSwitch
    \/ InitConstructBrowserManager
    \/ LaunchChrome
    \/ InitTelegram

NextScan == ScanContainers \/ ScanRows

\* scan_for_bets over the pages the driver can show
SpecScan == InitScan /\ [][NextScan]_vars

NextRescan == ScanContainers \/ ScanRows \/ CheckScanned \/ ScanAgain

\* scan_for_bets and check_for_new_bets, repeated on an unchanged page
SpecRescan == InitRescan /\ [][NextRescan]_vars

\* The start of the process over every combination of configuration values
SpecConfig == InitConfig /\ [][NextConfig]_vars

(***************************************************************************)
(* Properties                                                              *)
(***************************************************************************)
InitHasReturned == pc \in {"init_returned", "exited", "loop_entry", "loop_refused"}

\* C1: kill-switch ordering.  If verify_proxy returned False, no
\* EnhancedBrowserManager is constructed, launch_chrome is not called, no
\* login attempt is made, and initialize returns False.
KillSwitchOrdering ==
    vp_result = "false" =>
        /\ ~browser.mgr
        /\ browser.driver = "none"
        /\ launch_result = "none"
        /\ login_attempts = 0
        /\ login_result = "none"
        /\ init_result # "true"
        /\ InitHasReturned => init_result = "false"

KillSwitchFired == vp_result = "false" /\ pc = "init_returned" /\ init_result = "false"

AnyStageFailed ==
    \/ vp_result \in {"false", "raised"}
    \/ launch_result = "fail"
    \/ login_result = "fail"
    \/ nav_result = "fail"

AllStagesOk ==
    /\ vp_result = "true"
    /\ launch_result = "ok"
    /\ login_result = "ok"
    /\ nav_result = "ok"

StagesInOrder ==
    /\ (browser.mgr \/ launch_result # "none" \/ pc = "launch_chrome") => vp_result = "true"
    /\ (login_attempts > 0 \/ login_result # "none" \/ pc = "login") => launch_result = "ok"
    /\ (bet_monitor \/ nav_result # "none" \/ pc = "navigate") => login_result = "ok"
    /\ monitoring_active => AllStagesOk
    /\ init_result = "true" => AllStagesOk
    /\ init_result = "false" => ~monitoring_active
    /\ (AnyStageFailed /\ InitHasReturned) => (init_result = "false" /\ ~monitoring_active)
    /\ pc = "loop_refused" =>
          check_count = 0 /\ notified = <<>> /\ known_bets = {} /\ bet_history = <<>>

\* C2: initialization is a strictly ordered state machine.  Each stage starts
\* only after the previous one succeeded, monitoring_active is True only after
\* all four succeeded, a failed stage makes initialize return False with
\* monitoring_active False, and run_monitoring_loop entered with
\* monitoring_active False returns at once: no scan, no notification, no
\* status, no save, no cleanup.
StagedInitialization ==
    /\ []StagesInOrder
    /\ [][(pc = "loop_entry" /\ ~monitoring_active) =>
            /\ pc' = "loop_refused"
            /\ UNCHANGED <<check_count, current_bets, known_bets, bet_history,
                           notified, status_log, file, browser>>]_vars
    /\ [][pc = "loop_refused" => UNCHANGED vars]_vars

LoopRefusedAfterFailedLogin == pc = "loop_refused" /\ login_result = "fail"

\* A stage before Monitoring failed in one of the four named ways
NamedStageFailure ==
    \/ vp_result = "false"
    \/ launch_result = "fail"
    \/ login_result = "fail"
    \/ nav_result = "fail"

\* C3 (as claimed): whenever initialize returns False because of a proxy
\* mismatch, a session-launch exception, exhausted authentication or an
\* unconfirmed history page, a failure status was sent through the notifier
\* before it returned.
FailureAlwaysNotified ==
    (init_result = "false" /\ NamedStageFailure) =>
        \E i \in DOMAIN status_log : status_log[i] \in FailureStatuses

ReportedExpected(i) ==
    /\ probed[i].kind = "http"
    /\ probed[i].status = 200
    /\ LET p == ParseActualIp(ip_services[i], probed[i].body) IN
       p.out = "value" /\ p.ip = expected_ip

\* Service i answered with status 200 and a different address
ReportedOther(i) ==
    /\ probed[i].kind = "http"
    /\ probed[i].status = 200
    /\ LET p == ParseActualIp(ip_services[i], probed[i].body) IN
       p.out = "value" /\ p.ip # expected_ip

\* C5: verify_proxy probes the services in order and returns True exactly
\* when a probed service answered 200 with the expected address; that service
\* is the last one probed; a mismatch of an earlier service does not end the
\* check; False is returned only after all services were probed and none
\* reported the expected address.
FirstMatchWins ==
    /\ pc = "verify_proxy" =>
          /\ Len(probed) < Len(ip_services)
          /\ \A i \in DOMAIN probed : ~ReportedExpected(i)
    /\ pc = "vp_returned" =>
          /\ Len(probed) \in 1..Len(ip_services)
          /\ vp_result = "true" <=> \E i \in DOMAIN probed : ReportedExpected(i)
          /\ \A i \in 1..(Len(probed) - 1) : ~ReportedExpected(i)
          /\ vp_result = "false" =>
                /\ Len(probed) = Len(ip_services)
                /\ \A i \in DOMAIN probed : ~ReportedExpected(i)

MatchAfterMismatch ==
    /\ pc = "vp_returned"
    /\ vp_result = "true"
    /\ Len(probed) = 3
    /\ ReportedOther(1)
    /\ ReportedOther(2)

\* C6 (as claimed): a failure of one service only skips that service, and
\* verify_proxy always returns a boolean.
SingleFailureOnlySkips ==
    pc = "vp_returned" => vp_result \in {"true", "false"}

HistoryCount(history, id) ==
    Cardinality({i \in DOMAIN history : history[i].betslip_id = id})

NotifiedCount(log, id) == Cardinality({i \in DOMAIN log : log[i] = id})

\* C7: dedup idempotence.  For an identifier already in known_bets, a scan
\* returns no new record with it, the history gets no further entry with it,
\* and it is never dispatched a second time.
DedupIdempotence ==
    [][\A id \in known_bets :
          /\ pc = "iter_scan" => id \notin BetIdsOf(new_bets')
          /\ HistoryCount(bet_history', id) = HistoryCount(bet_history, id)
          /\ NotifiedCount(notified', id) <= 1]_vars

KnownIdPresentedAgain ==
    /\ pc = "iter_checked"
    /\ \E i \in DOMAIN current_bets :
          /\ current_bets[i].betslip_id \notin BetIdsOf(new_bets)
          /\ NotifiedCount(notified, current_bets[i].betslip_id) = 1

\* Indices of the scanned records that are new: identifier not known before
\* the scan and not carried by an earlier record of the same scan
NewIndices(scan, known) ==
    {i \in DOMAIN scan :
        /\ scan[i].betslip_id \notin known
        /\ \A j \in 1..(i - 1) : scan[j].betslip_id # scan[i].betslip_id}

RECURSIVE Pick(_, _, _)
Pick(scan, keep, i) ==
    IF i > Len(scan) THEN <<>>
    ELSE (IF i \in keep THEN <<scan[i]>> ELSE <<>>) \o Pick(scan, keep, i + 1)

\* C8: check_for_new_bets returns, in scan order, exactly the scanned records
\* whose identifier was absent from known_bets when examined; their
\* identifiers are added to known_bets and the records appended to
\* bet_history; nothing but the identifier decides.
ExactSetMembershipFilter ==
    [][(pc = "iter_scan" /\ pc' = "iter_checked") =>
          /\ new_bets' = Pick(current_bets', NewIndices(current_bets', known_bets), 1)
          /\ known_bets' = known_bets \cup BetIdsOf(new_bets')
          /\ bet_history' = bet_history \o new_bets']_vars

SameIdTwiceInOneScan ==
    /\ pc = "iter_checked"
    /\ Len(current_bets) = 2
    /\ current_bets[1].betslip_id = current_bets[2].betslip_id
    /\ current_bets[1].teams # current_bets[2].teams
    /\ new_bets = <<current_bets[1]>>

IsPrefix(s, t) ==
    /\ Len(s) <= Len(t)
    /\ \A i \in DOMAIN s : s[i] = t[i]

\* C9: the ledger is append-only.  In every step bet_history keeps its
\* entries as a prefix and known_bets keeps its identifiers.
LedgerAppendOnly ==
    [][IsPrefix(bet_history, bet_history') /\ known_bets \subseteq known_bets']_vars

RecoveryWithSavedHistory ==
    /\ pc = "iter_recover"
    /\ Len(bet_history) = 2
    /\ file = HistoryData(bet_history)
    /\ check_count >= 2

\* C10 (as claimed): after a crash during save_bet_history the storage never
\* holds a partially written or truncated file as the only copy.
SaveCrashSafe ==
    pc = "crashed" => file.kind # "partial"

\* C11 (as claimed): at every sleep between two iterations, unless a write
\* failed, the document in the file is exactly the in-memory history.
PersistedEqualsMemoryAtEverySleep ==
    (pc = "iter_sleep" /\ last_save # "failed" /\ file.kind = "doc")
        => file = HistoryData(bet_history)

\* the identifiers of a batch, in the order of the batch
BatchIds(batch) == [k \in 1..Len(batch) |-> batch[k].betslip_id]

\* the last n entries of a sequence
LastN(s, n) == SubSeq(s, Len(s) - n + 1, Len(s))

InIterationSave == pc \in {"save_open", "save_write"} /\ save_ret = "iter_reset"

\* C11: notify the batch, then persist.  The iteration's write starts only
\* from the notification loop of a non-empty batch whose records were all
\* dispatched, in scan order; it is followed by the reset (one write per
\* iteration, unless the process is interrupted or killed in it), and from
\* there to the sleep neither a bet notification nor a write happens; an iteration without a new record goes to the reset with
\* no bet notification and no write.  At every sleep between two iterations
\* at which the latest write succeeded, the file holds the in-memory history.
NotifyBatchThenPersist ==
    /\ [](pc = "iter_notify" => new_bets # <<>>)
    /\ []((pc = "iter_sleep" /\ last_save = "ok") => file = HistoryData(bet_history))
    /\ [][/\ (~InIterationSave /\ InIterationSave') =>
                /\ pc = "iter_notify"
                /\ notify_i = Len(new_bets)
                /\ Len(notified) >= Len(new_bets)
                /\ LastN(notified, Len(new_bets)) = BatchIds(new_bets)
          /\ InIterationSave =>
                (InIterationSave' \/ pc' \in {"iter_reset", "interrupted", "crashed"})
          /\ (pc = "iter_checked" /\ new_bets = <<>>) =>
                /\ pc' \in {"iter_reset", "interrupted"}
                /\ notified' = notified /\ file' = file
          /\ pc = "iter_reset" =>
                /\ pc' \in {"iter_sleep", "iter_except", "interrupted"}
                /\ notified' = notified /\ file' = file]_vars

BatchOfTwoPersistedAtSleep ==
    /\ pc = "iter_sleep"
    /\ check_count = 1
    /\ Len(bet_history) = 2
    /\ notified = BatchIds(bet_history)
    /\ last_save = "ok"
    /\ file = HistoryData(bet_history)

\* the while loop of run_monitoring_loop has been left
LoopStopped == pc \in {"loop_finally", "cleanup", "cleanup_browser", "save_open",
                       "save_write", "loop_returned", "exited", "crashed"}
               /\ ~InLoopTry

\* C12 (as claimed): with max_errors = 5, once five iterations in a row have
\* failed the loop has stopped: there is no recovery on the fifth failure and
\* no sixth iteration.
FifthConsecutiveFailureStops ==
    (max_errors = default_max_errors /\ failed_streak >= default_max_errors)
        => LoopStopped

\* C13: the budget counts consecutive failures only.  consecutive_errors
\* never exceeds the number of iterations that failed in a row; it is 0 at
\* the sleep of an iteration that completed without exception; at the start
\* of every iteration 0 <= consecutive_errors < max_errors; and the loop is
\* stopped on the budget only by a failure that makes max_errors failing
\* iterations in a row.
BudgetCountsConsecutiveFailures ==
    /\ [](consecutive_errors <= failed_streak)
    /\ [](pc = "loop_top" => (0 <= consecutive_errors /\ consecutive_errors < max_errors))
    /\ []((pc = "iter_sleep" /\ recover_result = "none") => consecutive_errors = 0)
    /\ [][(pc = "iter_except" /\ pc' = "loop_finally") =>
             /\ consecutive_errors' = max_errors
             /\ failed_streak' >= max_errors]_vars
    /\ [][(pc = "iter_except" /\ pc' = "iter_recover") =>
             consecutive_errors' < max_errors]_vars

SuccessAfterFailureResetsCount ==
    /\ pc = "iter_sleep"
    /\ check_count = 11
    /\ recover_result = "none"
    /\ check_interval = 1800
    /\ max_errors = 2
    /\ consecutive_errors = 0
    /\ failed_streak = 0
    /\ failures = 1
    /\ Len(bet_history) = 1

\* C14: recovery never ends the loop.  A failure that does not exhaust the
\* budget is followed by the recovery navigation; whatever it returns, the
\* sleep follows and then the next iteration, with consecutive_errors and
\* monitoring_active as the failure left them (only an interrupt can come in
\* between).
RecoveryNeverEndsLoop ==
    /\ [](pc \in {"iter_recover", "iter_sleep", "loop_top"} => monitoring_active)
    /\ [][/\ (pc = "iter_except" /\ consecutive_errors + 1 < max_errors) =>
                pc' \in {"iter_recover", "interrupted"}
          /\ pc = "iter_recover" =>
                /\ pc' \in {"iter_sleep", "interrupted"}
                /\ consecutive_errors' = consecutive_errors
                /\ monitoring_active' = monitoring_active
          /\ (pc = "iter_sleep" /\ recover_result # "none") =>
                /\ pc' \in {"loop_top", "interrupted"}
                /\ consecutive_errors' = consecutive_errors
                /\ monitoring_active' = monitoring_active]_vars

NextIterationAfterFailedRecovery ==
    /\ pc = "iter_sleep"
    /\ recover_result = "false"
    /\ monitoring_active
    /\ consecutive_errors = 1
    /\ max_errors = 2
    /\ check_count = 10
    /\ check_interval = 1800

\* C15 (as claimed): an iteration whose scan raised is a failed iteration:
\* when it reaches its sleep, consecutive_errors was incremented and one
\* re-navigation was made.
ScanErrorFailsIteration ==
    (pc = "iter_sleep" /\ scan_error) =>
        (consecutive_errors >= 1 /\ recover_result # "none")

\* the step records a send whose delivery failed
FailedDelivery ==
    /\ Len(send_results') = Len(send_results) + 1
    /\ ~send_results'[Len(send_results')]

\* C16: messaging failures are swallowed.  A send that returns False counts
\* no failure (consecutive_errors is not incremented, no iteration failure is
\* recorded), does not enter the except clause and leaves the loop active;
\* the notification loop goes on to the remaining records, and the write of
\* the history starts only when every record of the batch was dispatched,
\* delivered or not.
MessagingFailuresSwallowed ==
    /\ [](InIterationSave => Len(send_results) = Len(new_bets))
    /\ [][FailedDelivery =>
             /\ pc' \in {"iter_notify", "iter_sleep"}
             /\ consecutive_errors' \in {consecutive_errors, 0}
             /\ failures' = failures
             /\ recover_result' = recover_result
             /\ monitoring_active' = monitoring_active]_vars
    /\ [][pc = "iter_notify" =>
             \/ pc' = "iter_notify" /\ notify_i' = notify_i + 1
             \/ pc' = "save_open" /\ notify_i = Len(new_bets)
             \/ pc' = "interrupted"]_vars

BatchPersistedAfterFailedDeliveries ==
    /\ pc = "iter_sleep"
    /\ send_results = <<FALSE, FALSE>>
    /\ Len(new_bets) = 0
    /\ Len(notified) = 2
    /\ file = HistoryData(bet_history)
    /\ Len(bet_history) = 2
    /\ failures = 0
    /\ consecutive_errors = 0
    /\ recover_result = "none"
    /\ monitoring_active

\* C17 (as claimed): when run_monitoring_loop has returned, every identifier
\* accepted into known_bets was dispatched to the notifier, an interrupt
\* included.
AcceptedRecordsDispatchedBeforeLoopEnds ==
    pc = "loop_returned" =>
        \A id \in known_bets : \E k \in DOMAIN notified : notified[k] = id

StatusCount(msg) == Cardinality({i \in DOMAIN status_log : status_log[i] = msg})

\* the except KeyboardInterrupt clause was entered
StoppedByUser == StatusCount("stopped_by_user") >= 1

\* positions from the except clauses of the outer try to the return of
\* run_monitoring_loop
InTeardown ==
    \/ pc \in {"interrupted", "loop_crashed", "loop_finally", "loop_returned"}
    \/ pc \in {"cleanup", "cleanup_browser"} /\ cleanup_ret = "loop_returned"
    \/ pc \in {"save_open", "save_write"} /\ save_ret = "cleanup_browser"
                                         /\ cleanup_ret = "loop_returned"

InLoopCleanupSave ==
    /\ pc \in {"save_open", "save_write"}
    /\ save_ret = "cleanup_browser"
    /\ cleanup_ret = "loop_returned"

SummaryDue(n) == (n * check_interval) % 3600 = 0

\* C20 (as claimed): with a positive check interval, at the sleep of every
\* iteration the number of status summaries sent so far is the number of
\* iterations so far whose number is a multiple of 3600 / check_interval: one
\* summary at each of them and none at any other.
SummaryAtEveryMultiple ==
    (pc = "iter_sleep" /\ check_interval > 0) =>
        StatusCount("monitor_active") =
            Cardinality({n \in 1..check_count : SummaryDue(n)})

\* C21: refresh every tenth iteration.  Iteration n starts with the refresh
\* exactly when n is a multiple of 10 and with the scan otherwise; the scan
\* is entered only from the start of the iteration or from a refresh that
\* succeeded; a refresh that raised leads to the except clause with nothing
\* scanned or accepted.
RefreshEveryTenthIteration ==
    /\ [](pc = "iter_refresh" => check_count % 10 = 0)
    /\ [][/\ pc = "loop_top" =>
                \/ pc' = "iter_refresh" /\ check_count' % 10 = 0
                \/ pc' = "iter_scan" /\ check_count' % 10 # 0
                \/ pc' = "interrupted"
          /\ pc' = "iter_scan" =>
                \/ pc = "loop_top"
                \/ pc = "iter_refresh" /\ check_count % 10 = 0
          /\ pc = "iter_refresh" =>
                /\ pc' \in {"iter_scan", "iter_except", "interrupted"}
                /\ UNCHANGED <<current_bets, known_bets, bet_history, new_bets>>
          /\ (pc = "iter_except" /\ check_count % 10 = 0
                                 /\ FloorDiv(3600, check_interval) # 0) =>
                /\ pc' \in {"iter_recover", "loop_finally", "interrupted"}
                /\ UNCHANGED <<current_bets, known_bets, bet_history, new_bets>>]_vars

RefreshFailedInTenthIteration ==
    /\ pc = "iter_except"
    /\ check_count = 10
    /\ check_interval = 1800
    /\ current_bets = <<>>
    /\ Len(bet_history) = 1

\* every required variable has a non-empty value, PROXY_PORT is an integer in
\* 1..65535 and CHECK_INTERVAL (30 when not set) is an integer
ConfigurationValid(e) ==
    /\ \A var \in required_vars : e[var] # Unset /\ e[var] # ""
    /\ ParseInt(e["PROXY_PORT"]).ok
    /\ ParseInt(e["PROXY_PORT"]).val \in 1..65535
    /\ ParseInt(IF e["CHECK_INTERVAL"] = Unset THEN "30" ELSE e["CHECK_INTERVAL"]).ok

\* C22: the process exit code.  When the process has exited, its code is 1
\* exactly when the configuration was invalid or incomplete or initialize
\* returned False, and 0 exactly when the configuration was valid and
\* initialize returned True, whichever way the monitoring loop then ended.
ExitCodeReflectsStartup ==
    pc = "exited" =>
        /\ exit_code \in {0, 1}
        /\ exit_code = 1 <=> (~ConfigurationValid(env) \/ init_result = "false")
        /\ exit_code = 0 <=> (ConfigurationValid(env) /\ init_result = "true")
        /\ ~ConfigurationValid(env) => init_result = "none"
        /\ init_result = "true" => (cleanups = 1 /\ ~monitoring_active)

ExitZeroAfterErrorBudget ==
    /\ pc = "exited"
    /\ exit_code = 0
    /\ init_result = "true"
    /\ StatusCount("too_many_errors") = 1
    /\ consecutive_errors = max_errors

\* nothing of initialize has happened: no probe, no browser, no notifier, no
\* status message
NothingStarted ==
    /\ probed = <<>>
    /\ vp_result = "none"
    /\ browser = NoBrowser
    /\ launch_result = "none"
    /\ ~telegram_notifier
    /\ status_log = <<>>

\* C26: configuration fails fast.  With a required variable absent or empty,
\* or a PROXY_PORT that is not an integer in 1..65535 (or a CHECK_INTERVAL
\* that is not an integer), the process goes from load_configuration to
\* exit code 1 and nothing of initialize ever happens; and a configuration
\* object that exists satisfies its invariants: port in 1..65535, host and
\* proxy username non-empty, both credentials non-empty, token and chat id
\* non-empty.
ConfigurationFailsFast ==
    /\ ~ConfigurationValid(env) =>
          /\ pc \in {"load_configuration", "exited"}
          /\ pc = "exited" => exit_code = 1
          /\ NothingStarted
    /\ pc = "load_configuration" => (NothingStarted /\ config = NoConfig)
    /\ (pc # "load_configuration" /\ ConfigurationValid(env)) =>
          (config.proxy.exists /\ config.login.exists /\ config.telegram.exists)
    /\ config.proxy.exists =>
          /\ config.proxy.port \in 1..65535
          /\ config.proxy.host \notin {"", Unset}
          /\ config.proxy.username \notin {"", Unset}
    /\ config.login.exists =>
          /\ config.login.username \notin {"", Unset}
          /\ config.login.password \notin {"", Unset}
    /\ config.telegram.exists =>
          /\ config.telegram.bot_token \notin {"", Unset}
          /\ config.telegram.chat_id \notin {"", Unset}

ExitedOnPortAboveRange ==
    /\ pc = "exited"
    /\ exit_code = 1
    /\ env = [Baseline("1800") EXCEPT !["PROXY_PORT"] = "65536"]
    /\ config = NoConfig
    /\ NothingStarted

\* C23 (as claimed): the scenario.  The container whose text is the five
\* lines 'Arsenal vs Chelsea', '1X2 Home', 'EUR25.00 stake', '2.40',
\* 'Possible win EUR60.00' yields one record with teams = line 1,
\* market = line 2, stake = line 3, odds = '2.40' and possible_winnings =
\* line 5.
ScenarioExtraction ==
    (/\ scan_pc = "containers_done"
     /\ page.containers = <<[text |-> ScenarioText, id |-> "slip1", stale |-> FALSE]>>)
    => /\ Len(scan_bets) = 1
       /\ scan_bets[1].teams =
            <<"A", "r", "s", "e", "n", "a", "l", " ", "v", "s", " ", "C",
              "h", "e", "l", "s", "e", "a">>
       /\ scan_bets[1].market = <<"1", "X", "2", " ", "H", "o", "m", "e">>
       /\ scan_bets[1].stake =
            <<"EUR", "2", "5", ".", "0", "0", " ", "s", "t", "a", "k", "e">>
       /\ scan_bets[1].odds = <<"2", ".", "4", "0">>
       /\ scan_bets[1].possible_winnings =
            <<"P", "o", "s", "s", "i", "b", "l", "e", " ", "w", "i", "n",
              " ", "EUR", "6", "0", ".", "0", "0">>

\* C24 (as claimed): sentinel completeness.  In every record scan_for_bets
\* returns, from a container or from a table row, none of teams, market,
\* stake, odds and possible_winnings is the empty string.
NoEmptyField ==
    scan_pc = "returned" =>
        \A i \in DOMAIN scan_bets :
            /\ scan_bets[i].teams # <<>>
            /\ scan_bets[i].market # <<>>
            /\ scan_bets[i].stake # <<>>
            /\ scan_bets[i].odds # <<>>
            /\ scan_bets[i].possible_winnings # <<>>

\* containers that yield a record: readable, and at least 10 characters of
\* text after stripping
KeptContainers ==
    {i \in DOMAIN page.containers :
        /\ ~page.containers[i].stale
        /\ Len(TextStrip(page.containers[i].text)) >= 10}

IsRowRecord(bet) == bet.betslip_id.kind = "row_bet"

\* C30: the table-row fallback.  The container strategy yields one record
\* for each readable container with at least 10 characters of text,
\* whatever the other containers are; the row strategy is run exactly
\* when that gave zero records (also when containers were found and all were
\* dropped); when it gave at least one record the scan returns exactly those
\* records and no row record.
RowFallbackOnlyWhenNoContainerRecord ==
    /\ [](scan_pc = "containers_done" =>
             /\ Len(scan_bets) = Cardinality(KeptContainers)
             /\ \A i \in DOMAIN scan_bets : ~IsRowRecord(scan_bets[i]))
    /\ [](scan_pc = "start" => ~used_rows)
    /\ [][scan_pc = "containers_done" =>
             /\ used_rows' <=> (scan_bets = <<>>)
             /\ scan_bets # <<>> => (scan_bets' = scan_bets /\ scan_pc' = "returned")
             /\ (scan_bets = <<>> /\ scan_pc' = "returned") =>
                   \A i \in DOMAIN scan_bets' : IsRowRecord(scan_bets'[i])]_vars

RowsUsedAfterAllContainersDropped ==
    /\ scan_pc = "returned"
    /\ used_rows
    /\ Len(page.containers) = 2
    /\ page.containers[1].text = ShortText
    /\ page.containers[2].stale
    /\ Len(scan_bets) = 1
    /\ IsRowRecord(scan_bets[1])

ShortContainerDroppedOthersKept ==
    /\ scan_pc = "returned"
    /\ ~used_rows
    /\ Len(page.containers) = 2
    /\ page.containers[1].text = ShortText
    /\ page.containers[2].text = ScenarioText
    /\ page.rows # <<>>
    /\ Len(scan_bets) = 1

\* the attempts of the current login() call, without the pauses
AttemptOutcomes == SelectSeq(login_log, LAMBDA e : e # "sleep")

\* C28: the login retry.  When login() returns it made between one and
\* max_attempts attempts, every attempt before the last one failed, each
\* failed attempt but the max_attempts-th is followed by one pause and the
\* last attempt by none, and the result is False exactly when max_attempts
\* attempts were made and all failed.  No other stage of initialize is
\* entered a second time: proxy verification, the browser launch, the
\* notifier set-up and the navigation are each entered only from the stage
\* before them, and a failed navigation goes to cleanup.
LoginRetriesBounded ==
    /\ [](login_attempts = Len(AttemptOutcomes) /\ login_attempts <= max_attempts)
    /\ [](pc = "login_returned" =>
             /\ login_attempts >= 1
             /\ Len(login_log) = 2 * login_attempts - 1
             /\ \A i \in DOMAIN login_log :
                    (login_log[i] = "sleep") <=> (i % 2 = 0)
             /\ \A i \in 1..(login_attempts - 1) : AttemptOutcomes[i] = "fail"
             /\ (login_result = "ok") <=> (AttemptOutcomes[login_attempts] = "ok")
             /\ (login_result = "fail") <=>
                    /\ login_attempts = max_attempts
                    /\ \A i \in DOMAIN AttemptOutcomes : AttemptOutcomes[i] = "fail")
    /\ [][/\ (pc' = "verify_proxy" /\ pc # "verify_proxy") => pc = "load_configuration"
          /\ pc' = "launch_chrome" => pc = "vp_returned"
          /\ pc' = "init_telegram" => pc = "launch_chrome"
          /\ (pc' = "login" /\ pc # "login") => pc = "init_telegram"
          /\ pc' = "navigate" => pc = "login_returned"
          /\ pc = "navigate" => pc' = "navigate_returned"
          /\ (pc = "navigate_returned" /\ nav_result = "fail") => pc' = "cleanup"
          /\ (pc = "login_returned" /\ login_result = "fail") => pc' = "cleanup"]_vars

ThirdAttemptSucceeded ==
    /\ pc = "login_returned"
    /\ login_log = <<"fail", "sleep", "fail", "sleep", "ok">>
    /\ login_result = "ok"

AllAttemptsFailed ==
    /\ pc = "login_returned"
    /\ login_log = <<"fail", "sleep", "fail", "sleep", "fail">>
    /\ login_result = "fail"

\* an exception was raised inside the attempt
AttemptRaised(p) ==
    \/ p.fault \in {"get_raises", "no_password_field"}
    \/ p.fault = "none" /\ UrlLeftLogin(p.url) /\ p.indicator = "raises"

\* C29: one login attempt.  An attempt in which an exception was raised
\* returns False and login() goes on; an attempt that never submitted the
\* form returns False; otherwise the attempt returns True exactly when the
\* URL read after the submit does not contain 'login' (compared in lower
\* case), whether a user indicator was found or not.
AttemptDecidedByUrl ==
    /\ [](last_attempt.exists =>
             LET p == last_attempt.page IN
             /\ AttemptRaised(p) => ~last_attempt.result
             /\ p.fault # "none" => ~last_attempt.result
             /\ (p.fault = "none" /\ ~AttemptRaised(p)) =>
                    (last_attempt.result <=>
                        ~Contains(Lower(p.url), <<"l", "o", "g", "i", "n">>)))
    /\ [][pc = "login" => pc' \in {"login", "login_returned"}]_vars

SoftSuccessWithoutIndicator ==
    /\ pc = "login_returned"
    /\ last_attempt.exists
    /\ last_attempt.page.url = MyBetsUrl
    /\ last_attempt.page.indicator = "absent"
    /\ last_attempt.result
    /\ login_result = "ok"

FailedAttemptAfterException ==
    /\ pc = "login"
    /\ last_attempt.exists
    /\ last_attempt.page.fault = "no_password_field"
    /\ ~last_attempt.result
    /\ login_attempts = 1

BetInfoFields == <<"betslip_id", "teams", "market", "stake", "odds",
                   "possible_winnings", "bet_time", "status">>

\* the value a JSON object holds under a key
ValueOf(object, key) ==
    object[CHOOSE i \in DOMAIN object : object[i][1] = key][2]

\* the record rebuilt from one object of the document
FromDict(object) ==
    [betslip_id |-> ValueOf(object, "betslip_id"),
     teams |-> ValueOf(object, "teams"),
     market |-> ValueOf(object, "market"),
     stake |-> ValueOf(object, "stake"),
     odds |-> ValueOf(object, "odds"),
     possible_winnings |-> ValueOf(object, "possible_winnings"),
     bet_time |-> ValueOf(object, "bet_time"),
     status |-> ValueOf(object, "status")]

\* C25: persistence round trip.  Whenever save_bet_history completes the
\* write for a history of N records, the document has total_bets = N and a
\* bets list of N objects; the i-th object has exactly the eight BetInfo
\* keys and rebuilding a record from it gives the i-th record of the
\* history, field for field.
DocumentRoundTrip ==
    [][(pc = "save_write" /\ file'.kind = "doc") =>
          /\ file'.total_bets = Len(bet_history)
          /\ Len(file'.bets) = Len(bet_history)
          /\ \A i \in DOMAIN bet_history :
                /\ [k \in DOMAIN file'.bets[i] |-> file'.bets[i][k][1]] = BetInfoFields
                /\ FromDict(file'.bets[i]) = bet_history[i]]_vars

TwoRecordsWrittenInOrder ==
    /\ file.kind = "doc"
    /\ last_save = "ok"
    /\ Len(bet_history) = 2
    /\ bet_history[1].teams # bet_history[2].teams
    /\ file.total_bets = 2
    /\ FromDict(file.bets[1]) = bet_history[1]
    /\ FromDict(file.bets[2]) = bet_history[2]

\* C27 (as claimed): over a whole run every identifier accepted into
\* known_bets gets exactly one delivery attempt: when the process has exited,
\* each of them was handed to send_bet_notification once, no more and no
\* less.
ExactlyOneDeliveryAttemptPerAcceptedId ==
    pc = "exited" =>
        \A id \in known_bets : NotifiedCount(notified, id) = 1

NavigationStops(site) ==
    {i \in DOMAIN urls : site[i].get = "raises" \/ _verify_bet_page(site[i])}

\* C31: navigation to the bet history.  The entry points are loaded in the
\* order of the list; the call ends at the first one that is confirmed as a
\* bet page (True) or whose load raises (False) and loads none after it; if
\* there is no such entry point all three are loaded and the result is
\* False.  The call always returns to initialize.
NavigationInPriorityOrder ==
    /\ [](pc = "navigate_returned" =>
             LET stops == NavigationStops(nav_site) IN
             IF stops = {}
             THEN nav_result = "fail" /\ nav_visited = urls
             ELSE LET k == CHOOSE i \in stops : \A j \in stops : i <= j IN
                  /\ nav_visited = SubSeq(urls, 1, k)
                  /\ (nav_result = "ok") <=> (nav_site[k].get = "loaded")
                  /\ (nav_result = "fail") <=> (nav_site[k].get = "raises"))
    /\ [][pc = "navigate" => pc' = "navigate_returned"]_vars

SecondEntryPointConfirmed ==
    /\ pc = "navigate_returned"
    /\ nav_result = "ok"
    /\ Len(nav_visited) = 2
    /\ ~_verify_bet_page(nav_site[1])
    /\ nav_site[2].indicators = "absent"
    /\ _verify_bet_page(nav_site[3])

NavigationRaisedAtSecond ==
    /\ pc = "navigate_returned"
    /\ nav_result = "fail"
    /\ Len(nav_visited) = 2
    /\ nav_site[2].get = "raises"
    /\ _verify_bet_page(nav_site[3])

NoEntryPointConfirmed ==
    /\ pc = "navigate_returned"
    /\ nav_result = "fail"
    /\ nav_visited = urls
    /\ nav_site[1].indicators = "raises"

\* C35: the kill switch inside the browser.  When the driver was set up,
\* launch_chrome succeeds exactly when the page the browser got from the IP
\* service contains expected_ip; otherwise the browser is quit, the exception
\* reaches the except clause of initialize, initialize does not return True,
\* and no login attempt and no navigation to the bet history is made.
BrowserKillSwitch ==
    /\ [][pc = "launch_chrome" =>
             /\ proxy_page'.kind # "none" =>
                   ((launch_result' = "ok") <=>
                        /\ proxy_page'.kind = "page"
                        /\ Contains(proxy_page'.source, ExpectedIpChars))
             /\ launch_result' = "ok" => proxy_page'.kind = "page"
             /\ launch_result' = "fail" =>
                   /\ browser'.driver # "live"
                   /\ pc' = "init_except"]_vars
    /\ [](launch_result = "fail" =>
             /\ init_result # "true"
             /\ login_attempts = 0 /\ login_result = "none"
             /\ nav_result = "none" /\ ~bet_monitor
             /\ pc \notin {"init_telegram", "login", "login_returned",
                           "navigate", "navigate_returned"})
    /\ []((pc = "init_returned" /\ launch_result = "fail") => init_result = "false")

BrowserShowedAnotherAddress ==
    /\ pc = "init_returned"
    /\ launch_result = "fail"
    /\ proxy_page = [kind |-> "page", source |-> IpJson(OtherIpChars)]
    /\ browser.driver = "quit"
    /\ init_result = "false"

BrowserShowedExpectedAddress ==
    /\ pc = "init_telegram"
    /\ launch_result = "ok"
    /\ proxy_page = [kind |-> "page", source |-> IpJson(ExpectedIpChars)]
    /\ browser.driver = "live"

\* C34 (as claimed): an iteration in which no collaborator operation failed
\* is not counted as an error, whatever the check interval.  Stated for the
\* first iteration, which has no refresh: once its work is over (recovery or
\* sleep), if the scan did not fail, every notification was delivered and
\* the save did not fail, consecutive_errors is 0.
NoErrorCountedWithoutFailure ==
    (/\ check_count = 1
     /\ pc \in {"iter_recover", "iter_sleep"}
     /\ check_interval >= 1
     /\ ~scan_error
     /\ \A i \in DOMAIN send_results : send_results[i]
     /\ last_save # "failed")
        => consecutive_errors = 0

IsSynthesized(id) == id.kind \in {"bet", "row_bet"}

\* the identifier the claim gives the record of container k
ClaimedContainerId(k) ==
    IF page.containers[k].id # ""
    THEN [kind |-> "attr", name |-> page.containers[k].id, time |-> 0, index |-> 0]
    ELSE [kind |-> "bet", name |-> "", time |-> page.now, index |-> k - 1]

InRecords(bet, records) == \E i \in DOMAIN records : records[i] = bet

\* C33: identifier stability.  A container record carries the element's id
\* attribute when it has one, else an identifier of the clock second and the
\* element's index; a table-row record always carries one of the clock
\* second and the row's index.  Synthesized identifiers are pairwise
\* different within one scan.  A record with a native id is entered in the
\* history once per run; a record with a synthesized identifier is accepted
\* as new by every check whose scan was taken at a clock second at which no
\* earlier scan was taken, although the page did not change.
IdentifierStability ==
    /\ [](scan_pc = "returned" =>
             /\ ~used_rows =>
                   {scan_bets[i].betslip_id : i \in DOMAIN scan_bets}
                       = {ClaimedContainerId(k) : k \in KeptContainers}
             /\ used_rows =>
                   \A i \in DOMAIN scan_bets :
                      /\ scan_bets[i].betslip_id.kind = "row_bet"
                      /\ scan_bets[i].betslip_id.time = page.now
             /\ \A i, j \in DOMAIN scan_bets :
                   (/\ IsSynthesized(scan_bets[i].betslip_id)
                    /\ scan_bets[i].betslip_id = scan_bets[j].betslip_id) => i = j)
    /\ [](\A i, j \in DOMAIN bet_history :
             (/\ bet_history[i].betslip_id.kind = "attr"
              /\ bet_history[i].betslip_id = bet_history[j].betslip_id) => i = j)
    /\ [][scan_pc = "returned" =>
             \A i \in DOMAIN scan_bets :
                LET id == scan_bets[i].betslip_id IN
                /\ (IsSynthesized(id) /\ \A known \in known_bets : known.time # page.now)
                      => InRecords(scan_bets[i], new_bets')
                /\ (id.kind = "attr" /\ id \in known_bets)
                      => ~InRecords(scan_bets[i], new_bets')]_vars

\* the same container without an id attribute, scanned at two different
\* seconds, is in the history twice and new again
UnchangedBetAcceptedAgain ==
    /\ scan_pc = "checked"
    /\ check_count = 1
    /\ Len(page.containers) = 1
    /\ page.containers[1].id = ""
    /\ Len(bet_history) = 2
    /\ bet_history[1].teams = bet_history[2].teams
    /\ bet_history[1].betslip_id # bet_history[2].betslip_id
    /\ Len(new_bets) = 1

NativeIdAcceptedOnce ==
    /\ scan_pc = "checked"
    /\ check_count = 1
    /\ Len(page.containers) = 1
    /\ page.containers[1].id = "slip1"
    /\ Len(bet_history) = 1
    /\ new_bets = <<>>

RowRecordAcceptedAgain ==
    /\ scan_pc = "checked"
    /\ check_count = 1
    /\ used_rows
    /\ Len(bet_history) = 2
    /\ bet_history[1].teams = bet_history[2].teams
    /\ Len(new_bets) = 1

====
